---- MODULE Spec2Model ----
(***************************************************************************)
(* Documentation ingestion and retrieval pipeline of docs-mcp-poc: crawl   *)
(* (1_get_docs.py), content validation (15_supplementary_crawl.py),        *)
(* chunking and indexing (2_index_docs.py) and retrieval (40_build_mcp.py, *)
(* serve_mcp.py, 30_inspect_db.py).                                        *)
(*                                                                         *)
(* Texts are sequences of one-character strings, so that length, strip(),  *)
(* lower() and substring search are computed as Python computes them.      *)
(***************************************************************************)
EXTENDS Integers, Sequences, FiniteSets, TLC

VARIABLES
  content,      \* classifier: the string handed to is_problematic_content
  verdict,      \* classifier: <<>> before the call, <<b>> once it returned b
  text,         \* chunker: the document body, a sequence of word tokens
  text_chunks,  \* chunker: <<>> before the call, <<list>> once chunk() returned list
  rawDir,       \* validator: crawled_docs_dir, file name -> (url -> text)
  processedDir, \* validator: processed_docs_dir, file name -> (url -> text)
  vpc,          \* validator: where main() stands
  json_files,   \* validator: the files main() has still to process
  input_file,   \* validator: <<>>, or <<f>> while process_file(f) runs
  data,         \* validator: the dict process_file loaded and updates
  todo_urls,    \* validator: the part of problematic_urls still to retry
  retry_count,  \* validator: process_file's retry_count
  success_count,\* validator: process_file's success_count
  refetches,    \* validator: the calls of retry_scrape_url so far, in order
  printed,      \* validator: the lines of run output that name a URL or an empty directory
  snapDir,      \* indexer: the snapshot directory, file stem -> (path -> body)
  dumping,      \* crawler: the file open for writing, file stem -> results_md
  gpc,          \* crawler: where the later run of 1_get_docs.py stands
  chunksColl,   \* store: the objects of collection Chunks
  docsColl,     \* store: the objects of collection Documents
  existing,     \* store: the names of the collections that exist
  autoschema,   \* store: whether it makes a collection for objects sent to a missing one
  rpc,          \* store: where 0_reset_db.py stands
  ipc,          \* indexer: where 2_index_docs.py stands
  crawled_doc_paths, \* indexer: the files the outer loop has still to visit
  crawled_doc_path,  \* indexer: <<>>, or <<stem>> of the file being indexed
  crawled_doc_dict,  \* indexer: the mappings the run has loaded, file stem -> (path -> body)
  todo_items,   \* indexer: the paths the running inner loop has still to visit
  batch,        \* indexer: the objects added to the open batch and not yet sent
  runNo,        \* indexer: the number of runs started
  history,      \* indexer: per run, the store it found, the files it loaded, the store it left
  logged,       \* indexer: the pages of the "Error ingesting" lines printed, in order
  failed_objects, \* store: the objects of sent batches that the store rejected
  response,     \* retrieval: <<>>, or <<r>> for the last tool invocation r
  cpc,          \* crawler: where 1_get_docs.py stands
  jobs,         \* crawler: the jobs main() has still to run, in order
  job,          \* crawler: <<>>, or <<j>> for the job being crawled
  current_level,\* crawler: the URLs of the breadth-first level to fetch next
  visited,      \* crawler: the URLs the strategy has taken up
  depths,       \* crawler: the depth of each URL taken up
  results,      \* crawler: the results collected for the job so far
  outputDir,    \* crawler: output_dir, file name -> (url -> markdown or None)
  fetch_log,    \* crawler: the fetches made, per job, with their success
  invocations,  \* server: per tool invocation in progress or ended, where it stands
  open_clients, \* server: the store connections that are open
  client_log    \* server: which invocation opened, used and closed which connection

clsVars == <<content, verdict>>
chkVars == <<text, text_chunks>>
valVars == <<rawDir, processedDir, vpc, json_files, input_file, data, todo_urls,
             retry_count, success_count, refetches, printed>>
idxVars == <<snapDir, dumping, gpc, ipc, crawled_doc_paths, crawled_doc_path, crawled_doc_dict,
             todo_items, batch,
             runNo, history, logged, failed_objects>>
storeVars == <<chunksColl, docsColl, existing, autoschema, rpc>>
crawlVars == <<cpc, jobs, job, current_level, visited, depths, results, outputDir,
               fetch_log>>
connVars == <<invocations, open_clients, client_log>>
vars == <<content, verdict, text, text_chunks, rawDir, processedDir, vpc, json_files,
          input_file, data, todo_urls, retry_count, success_count, refetches, printed,
          snapDir, dumping, gpc, chunksColl, docsColl, existing, autoschema, rpc, ipc, crawled_doc_paths, crawled_doc_path,
          crawled_doc_dict,
          todo_items, batch, runNo, history, logged, failed_objects, response,
          cpc, jobs, job, current_level, visited, depths, results, outputDir,
          fetch_log, invocations, open_clients, client_log>>

\* the validator's variables while another program is looked at
ValidatorIdle ==
  /\ rawDir = <<>>
  /\ processedDir = <<>>
  /\ vpc = "idle"
  /\ json_files = {}
  /\ input_file = <<>>
  /\ data = <<>>
  /\ todo_urls = <<>>
  /\ retry_count = 0
  /\ success_count = 0
  /\ refetches = <<>>
  /\ printed = {}

\* the indexer's variables while another program is looked at
IndexerIdle ==
  /\ snapDir = <<>>
  /\ dumping = <<>>
  /\ gpc = "off"
  /\ ipc = "off"
  /\ crawled_doc_paths = {}
  /\ crawled_doc_path = <<>>
  /\ crawled_doc_dict = <<>>
  /\ todo_items = <<>>
  /\ batch = <<>>
  /\ runNo = 0
  /\ history = <<>>
  /\ logged = <<>>
  /\ failed_objects = <<>>

\* the store's collections while a program that does not use the store is looked at
StoreIdle ==
  /\ chunksColl = <<>>
  /\ docsColl = <<>>
  /\ existing = {"Chunks", "Documents"}
  /\ autoschema = TRUE
  /\ rpc = "off"

\* the retrieval tools' variable while another program is looked at
RetrievalIdle == response = <<>>

\* the crawler's variables while another program is looked at
CrawlerIdle ==
  /\ cpc = "off"
  /\ jobs = <<>>
  /\ job = <<>>
  /\ current_level = <<>>
  /\ visited = {}
  /\ depths = <<>>
  /\ results = <<>>
  /\ outputDir = <<>>
  /\ fetch_log = {}

\* the server's connections while another program is looked at
ConnectionsIdle ==
  /\ invocations = <<>>
  /\ open_clients = {}
  /\ client_log = {}

\* the classifier's and the chunker's variables while another program is looked at
ClassifierIdle == content = <<>> /\ verdict = <<>>
ChunkerIdle == text = <<>> /\ text_chunks = <<>>

(***************************************************************************)
(* Bounds of the model.                                                    *)
(***************************************************************************)
\* longest run of filler characters around a phrase in a classified string
MaxFill == 50
\* longest run of leading or trailing whitespace in a classified string
MaxSpaces == 2
\* most windows a chunked document body spans
MaxWindows == 3
\* most URLs of one snapshot file
MaxUrls == 2
\* most indexing runs
MaxRuns == 2

(***************************************************************************)
(* Python string operations.                                               *)
(***************************************************************************)
UpperLetters == <<"A", "B", "C", "D", "E", "F", "G", "H", "I", "J", "K", "L", "M", "N", "O", "P", "Q", "R", "S", "T", "U", "V", "W", "X", "Y", "Z">>
LowerLetters == <<"a", "b", "c", "d", "e", "f", "g", "h", "i", "j", "k", "l", "m", "n", "o", "p", "q", "r", "s", "t", "u", "v", "w", "x", "y", "z">>


\* A string is the sequence of its characters.  A character up to U+007F is
\* the string of that one character; a character above U+007F, and the grave
\* accent U+0060, which a string here cannot hold, is the string of its code
\* point as Python's "U+%04X" % ord(c) writes it: "U+00E9", "U+3000",
\* "U+10400", "U+0060".

\* the characters above U+007F that str.strip() removes (c.isspace())
NonAsciiWhitespace ==
  {
   "U+0085", "U+00A0", "U+1680", "U+2000", "U+2001", "U+2002", "U+2003", "U+2004",
   "U+2005", "U+2006", "U+2007", "U+2008", "U+2009", "U+200A", "U+2028", "U+2029",
   "U+202F", "U+205F", "U+3000"
  }

\* the characters c with c.isspace(), which str.strip() removes: the space,
\* \t, \n, \v, \f, \r, the separators \x1c to \x1f, and those above U+007F
Whitespace ==
  {" ", "\t", "\n", "", "\f", "\r", "", "", "", ""} \cup NonAsciiWhitespace

\* the lower-case letter of every upper-case letter of A to Z, and the reverse
LowerOf ==
  [c \in {UpperLetters[i] : i \in 1..Len(UpperLetters)} |->
     LowerLetters[CHOOSE i \in 1..Len(UpperLetters) : UpperLetters[i] = c]]
UpperOf ==
  [c \in {LowerLetters[i] : i \in 1..Len(LowerLetters)} |->
     UpperLetters[CHOOSE i \in 1..Len(LowerLetters) : LowerLetters[i] = c]]

\* the digits of a code point in hexadecimal
HexDigits == "0123456789ABCDEF"
HexDigit(d) == SubSeq(HexDigits, d + 1, d + 1)

\* "%0wX" % n
RECURSIVE Hex(_, _)
Hex(n, w) ==
  IF n < 16 /\ w <= 1 THEN HexDigit(n) ELSE Hex(n \div 16, w - 1) \o HexDigit(n % 16)

\* the character of code point n, for n = 96 and n above 127: "U+%04X" % n
CodePoint(n) == "U+" \o Hex(n, 4)

\* int(field, 16)
RECURSIVE HexValue(_)
HexValue(field) ==
  IF field = "" THEN 0
  ELSE 16 * HexValue(SubSeq(field, 1, Len(field) - 1))
         + (CHOOSE d \in 0..15 : HexDigit(d) = SubSeq(field, Len(field), Len(field)))

\* A table of characters is a sequence of lines; a line holds ranges of code
\* points "FFFFFF-LLLLLL", first and last in six hexadecimal digits, with a
\* blank between two ranges.
RangesOfLine(line) ==
  {<<HexValue(SubSeq(line, 14 * k + 1, 14 * k + 6)),
     HexValue(SubSeq(line, 14 * k + 8, 14 * k + 13))>> :
       k \in 0..((Len(line) + 1) \div 14 - 1)}
CharactersOf(table) ==
  UNION {UNION {{CodePoint(n) : n \in r[1]..r[2]} : r \in RangesOfLine(table[l])} :
           l \in 1..Len(table)}

\* c and c.lower() for the characters c above U+007F whose lower case is
\* another single character above U+007F, as runs "FFFFFF-LLLLLL/S>TTTTTT":
\* every S-th character from FFFFFF to LLLLLL, the lower case of FFFFFF being
\* TTTTTT and that of the others as far from them
LowerRuns ==
  <<
   "0000C0-0000D6/1>0000E0 0000D8-0000DE/1>0000F8 000100-00012E/2>000101",
   "000132-000136/2>000133 000139-000147/2>00013A 00014A-000176/2>00014B",
   "000178-000178/1>0000FF 000179-00017D/2>00017A 000181-000181/1>000253",
   "000182-000184/2>000183 000186-000186/1>000254 000187-000187/1>000188",
   "000189-00018A/1>000256 00018B-00018B/1>00018C 00018E-00018E/1>0001DD",
   "00018F-00018F/1>000259 000190-000190/1>00025B 000191-000191/1>000192",
   "000193-000193/1>000260 000194-000194/1>000263 000196-000196/1>000269",
   "000197-000197/1>000268 000198-000198/1>000199 00019C-00019C/1>00026F",
   "00019D-00019D/1>000272 00019F-00019F/1>000275 0001A0-0001A4/2>0001A1",
   "0001A6-0001A6/1>000280 0001A7-0001A7/1>0001A8 0001A9-0001A9/1>000283",
   "0001AC-0001AC/1>0001AD 0001AE-0001AE/1>000288 0001AF-0001AF/1>0001B0",
   "0001B1-0001B2/1>00028A 0001B3-0001B5/2>0001B4 0001B7-0001B7/1>000292",
   "0001B8-0001B8/1>0001B9 0001BC-0001BC/1>0001BD 0001C4-0001C4/1>0001C6",
   "0001C5-0001C5/1>0001C6 0001C7-0001C7/1>0001C9 0001C8-0001C8/1>0001C9",
   "0001CA-0001CA/1>0001CC 0001CB-0001DB/2>0001CC 0001DE-0001EE/2>0001DF",
   "0001F1-0001F1/1>0001F3 0001F2-0001F4/2>0001F3 0001F6-0001F6/1>000195",
   "0001F7-0001F7/1>0001BF 0001F8-00021E/2>0001F9 000220-000220/1>00019E",
   "000222-000232/2>000223 00023A-00023A/1>002C65 00023B-00023B/1>00023C",
   "00023D-00023D/1>00019A 00023E-00023E/1>002C66 000241-000241/1>000242",
   "000243-000243/1>000180 000244-000244/1>000289 000245-000245/1>00028C",
   "000246-00024E/2>000247 000370-000372/2>000371 000376-000376/1>000377",
   "00037F-00037F/1>0003F3 000386-000386/1>0003AC 000388-00038A/1>0003AD",
   "00038C-00038C/1>0003CC 00038E-00038F/1>0003CD 000391-0003A1/1>0003B1",
   "0003A3-0003AB/1>0003C3 0003CF-0003CF/1>0003D7 0003D8-0003EE/2>0003D9",
   "0003F4-0003F4/1>0003B8 0003F7-0003F7/1>0003F8 0003F9-0003F9/1>0003F2",
   "0003FA-0003FA/1>0003FB 0003FD-0003FF/1>00037B 000400-00040F/1>000450",
   "000410-00042F/1>000430 000460-000480/2>000461 00048A-0004BE/2>00048B",
   "0004C0-0004C0/1>0004CF 0004C1-0004CD/2>0004C2 0004D0-00052E/2>0004D1",
   "000531-000556/1>000561 0010A0-0010C5/1>002D00 0010C7-0010C7/1>002D27",
   "0010CD-0010CD/1>002D2D 0013A0-0013EF/1>00AB70 0013F0-0013F5/1>0013F8",
   "001C90-001CBA/1>0010D0 001CBD-001CBF/1>0010FD 001E00-001E94/2>001E01",
   "001E9E-001E9E/1>0000DF 001EA0-001EFE/2>001EA1 001F08-001F0F/1>001F00",
   "001F18-001F1D/1>001F10 001F28-001F2F/1>001F20 001F38-001F3F/1>001F30",
   "001F48-001F4D/1>001F40 001F59-001F5F/2>001F51 001F68-001F6F/1>001F60",
   "001F88-001F8F/1>001F80 001F98-001F9F/1>001F90 001FA8-001FAF/1>001FA0",
   "001FB8-001FB9/1>001FB0 001FBA-001FBB/1>001F70 001FBC-001FBC/1>001FB3",
   "001FC8-001FCB/1>001F72 001FCC-001FCC/1>001FC3 001FD8-001FD9/1>001FD0",
   "001FDA-001FDB/1>001F76 001FE8-001FE9/1>001FE0 001FEA-001FEB/1>001F7A",
   "001FEC-001FEC/1>001FE5 001FF8-001FF9/1>001F78 001FFA-001FFB/1>001F7C",
   "001FFC-001FFC/1>001FF3 002126-002126/1>0003C9 00212B-00212B/1>0000E5",
   "002132-002132/1>00214E 002160-00216F/1>002170 002183-002183/1>002184",
   "0024B6-0024CF/1>0024D0 002C00-002C2F/1>002C30 002C60-002C60/1>002C61",
   "002C62-002C62/1>00026B 002C63-002C63/1>001D7D 002C64-002C64/1>00027D",
   "002C67-002C6B/2>002C68 002C6D-002C6D/1>000251 002C6E-002C6E/1>000271",
   "002C6F-002C6F/1>000250 002C70-002C70/1>000252 002C72-002C72/1>002C73",
   "002C75-002C75/1>002C76 002C7E-002C7F/1>00023F 002C80-002CE2/2>002C81",
   "002CEB-002CED/2>002CEC 002CF2-002CF2/1>002CF3 00A640-00A66C/2>00A641",
   "00A680-00A69A/2>00A681 00A722-00A72E/2>00A723 00A732-00A76E/2>00A733",
   "00A779-00A77B/2>00A77A 00A77D-00A77D/1>001D79 00A77E-00A786/2>00A77F",
   "00A78B-00A78B/1>00A78C 00A78D-00A78D/1>000265 00A790-00A792/2>00A791",
   "00A796-00A7A8/2>00A797 00A7AA-00A7AA/1>000266 00A7AB-00A7AB/1>00025C",
   "00A7AC-00A7AC/1>000261 00A7AD-00A7AD/1>00026C 00A7AE-00A7AE/1>00026A",
   "00A7B0-00A7B0/1>00029E 00A7B1-00A7B1/1>000287 00A7B2-00A7B2/1>00029D",
   "00A7B3-00A7B3/1>00AB53 00A7B4-00A7C2/2>00A7B5 00A7C4-00A7C4/1>00A794",
   "00A7C5-00A7C5/1>000282 00A7C6-00A7C6/1>001D8E 00A7C7-00A7C9/2>00A7C8",
   "00A7D0-00A7D0/1>00A7D1 00A7D6-00A7D8/2>00A7D7 00A7F5-00A7F5/1>00A7F6",
   "00FF21-00FF3A/1>00FF41 010400-010427/1>010428 0104B0-0104D3/1>0104D8",
   "010570-01057A/1>010597 01057C-01058A/1>0105A3 01058C-010592/1>0105B3",
   "010594-010595/1>0105BB 010C80-010CB2/1>010CC0 0118A0-0118BF/1>0118C0",
   "016E40-016E5F/1>016E60 01E900-01E921/1>01E922"
  >>

RunsOfLine(line) ==
  {[first |-> HexValue(SubSeq(line, 23 * k + 1, 23 * k + 6)),
    last |-> HexValue(SubSeq(line, 23 * k + 8, 23 * k + 13)),
    step |-> HexValue(SubSeq(line, 23 * k + 15, 23 * k + 15)),
    lower |-> HexValue(SubSeq(line, 23 * k + 17, 23 * k + 22))] :
       k \in 0..((Len(line) + 1) \div 23 - 1)}

\* KELVIN SIGN, the one character above U+007F whose lower case is below it
KelvinSign == "U+212A"

LowerPairs ==
  UNION {UNION {{<<CodePoint(n), CodePoint(n - r.first + r.lower)>> :
                   n \in {m \in r.first..r.last : (m - r.first) % r.step = 0}} :
                  r \in RunsOfLine(LowerRuns[l])} : l \in 1..Len(LowerRuns)}
    \cup {<<KelvinSign, "k">>}

LowerOfNonAscii ==
  [c \in {p[1] : p \in LowerPairs} |-> (CHOOSE p \in LowerPairs : p[1] = c)[2]]

\* LATIN CAPITAL LETTER I WITH DOT ABOVE, the one character whose lower case
\* is two characters: "i" and COMBINING DOT ABOVE
CapitalIWithDot == "U+0130"
CombiningDot == "U+0307"

\* GREEK CAPITAL LETTER SIGMA and its two lower-case forms
CapitalSigma == "U+03A3"
SmallSigma == "U+03C3"
FinalSmallSigma == "U+03C2"

\* the cased characters that are not case-ignorable: a capital sigma with one
\* of them before it (case-ignorable characters skipped) and none after it
\* lower-cases to the final form.  Below U+0080 they are the letters
CasedRanges ==
  <<
   "0000AA-0000AA 0000B5-0000B5 0000BA-0000BA 0000C0-0000D6 0000D8-0000F6 0000F8-0001BA",
   "0001BC-0001BF 0001C4-000293 000295-0002AF 000370-000373 000376-000377 00037B-00037D",
   "00037F-00037F 000386-000386 000388-00038A 00038C-00038C 00038E-0003A1 0003A3-0003F5",
   "0003F7-000481 00048A-00052F 000531-000556 000560-000588 0010A0-0010C5 0010C7-0010C7",
   "0010CD-0010CD 0010D0-0010FA 0010FD-0010FF 0013A0-0013F5 0013F8-0013FD 001C80-001C88",
   "001C90-001CBA 001CBD-001CBF 001D00-001D2B 001D6B-001D77 001D79-001D9A 001E00-001F15",
   "001F18-001F1D 001F20-001F45 001F48-001F4D 001F50-001F57 001F59-001F59 001F5B-001F5B",
   "001F5D-001F5D 001F5F-001F7D 001F80-001FB4 001FB6-001FBC 001FBE-001FBE 001FC2-001FC4",
   "001FC6-001FCC 001FD0-001FD3 001FD6-001FDB 001FE0-001FEC 001FF2-001FF4 001FF6-001FFC",
   "002102-002102 002107-002107 00210A-002113 002115-002115 002119-00211D 002124-002124",
   "002126-002126 002128-002128 00212A-00212D 00212F-002134 002139-002139 00213C-00213F",
   "002145-002149 00214E-00214E 002160-00217F 002183-002184 0024B6-0024E9 002C00-002C7B",
   "002C7E-002CE4 002CEB-002CEE 002CF2-002CF3 002D00-002D25 002D27-002D27 002D2D-002D2D",
   "00A640-00A66D 00A680-00A69B 00A722-00A76F 00A771-00A787 00A78B-00A78E 00A790-00A7CA",
   "00A7D0-00A7D1 00A7D3-00A7D3 00A7D5-00A7D9 00A7F5-00A7F6 00A7FA-00A7FA 00AB30-00AB5A",
   "00AB60-00AB68 00AB70-00ABBF 00FB00-00FB06 00FB13-00FB17 00FF21-00FF3A 00FF41-00FF5A",
   "010400-01044F 0104B0-0104D3 0104D8-0104FB 010570-01057A 01057C-01058A 01058C-010592",
   "010594-010595 010597-0105A1 0105A3-0105B1 0105B3-0105B9 0105BB-0105BC 010C80-010CB2",
   "010CC0-010CF2 0118A0-0118DF 016E40-016E7F 01D400-01D454 01D456-01D49C 01D49E-01D49F",
   "01D4A2-01D4A2 01D4A5-01D4A6 01D4A9-01D4AC 01D4AE-01D4B9 01D4BB-01D4BB 01D4BD-01D4C3",
   "01D4C5-01D505 01D507-01D50A 01D50D-01D514 01D516-01D51C 01D51E-01D539 01D53B-01D53E",
   "01D540-01D544 01D546-01D546 01D54A-01D550 01D552-01D6A5 01D6A8-01D6C0 01D6C2-01D6DA",
   "01D6DC-01D6FA 01D6FC-01D714 01D716-01D734 01D736-01D74E 01D750-01D76E 01D770-01D788",
   "01D78A-01D7A8 01D7AA-01D7C2 01D7C4-01D7CB 01DF00-01DF09 01DF0B-01DF1E 01E900-01E943",
   "01F130-01F149 01F150-01F169 01F170-01F189"
  >>

CasedCharacters ==
  {UpperLetters[i] : i \in 1..Len(UpperLetters)}
    \cup {LowerLetters[i] : i \in 1..Len(LowerLetters)} \cup CharactersOf(CasedRanges)

\* the case-ignorable characters, which the search for a cased character
\* before and after a capital sigma skips.  Below U+0080 they are ' . : ^ and
\* the grave accent
CaseIgnorableRanges ==
  <<
   "000060-000060 0000A8-0000A8 0000AD-0000AD 0000AF-0000AF 0000B4-0000B4 0000B7-0000B8",
   "0002B0-00036F 000374-000375 00037A-00037A 000384-000385 000387-000387 000483-000489",
   "000559-000559 00055F-00055F 000591-0005BD 0005BF-0005BF 0005C1-0005C2 0005C4-0005C5",
   "0005C7-0005C7 0005F4-0005F4 000600-000605 000610-00061A 00061C-00061C 000640-000640",
   "00064B-00065F 000670-000670 0006D6-0006DD 0006DF-0006E8 0006EA-0006ED 00070F-00070F",
   "000711-000711 000730-00074A 0007A6-0007B0 0007EB-0007F5 0007FA-0007FA 0007FD-0007FD",
   "000816-00082D 000859-00085B 000888-000888 000890-000891 000898-00089F 0008C9-000902",
   "00093A-00093A 00093C-00093C 000941-000948 00094D-00094D 000951-000957 000962-000963",
   "000971-000971 000981-000981 0009BC-0009BC 0009C1-0009C4 0009CD-0009CD 0009E2-0009E3",
   "0009FE-0009FE 000A01-000A02 000A3C-000A3C 000A41-000A42 000A47-000A48 000A4B-000A4D",
   "000A51-000A51 000A70-000A71 000A75-000A75 000A81-000A82 000ABC-000ABC 000AC1-000AC5",
   "000AC7-000AC8 000ACD-000ACD 000AE2-000AE3 000AFA-000AFF 000B01-000B01 000B3C-000B3C",
   "000B3F-000B3F 000B41-000B44 000B4D-000B4D 000B55-000B56 000B62-000B63 000B82-000B82",
   "000BC0-000BC0 000BCD-000BCD 000C00-000C00 000C04-000C04 000C3C-000C3C 000C3E-000C40",
   "000C46-000C48 000C4A-000C4D 000C55-000C56 000C62-000C63 000C81-000C81 000CBC-000CBC",
   "000CBF-000CBF 000CC6-000CC6 000CCC-000CCD 000CE2-000CE3 000D00-000D01 000D3B-000D3C",
   "000D41-000D44 000D4D-000D4D 000D62-000D63 000D81-000D81 000DCA-000DCA 000DD2-000DD4",
   "000DD6-000DD6 000E31-000E31 000E34-000E3A 000E46-000E4E 000EB1-000EB1 000EB4-000EBC",
   "000EC6-000EC6 000EC8-000ECD 000F18-000F19 000F35-000F35 000F37-000F37 000F39-000F39",
   "000F71-000F7E 000F80-000F84 000F86-000F87 000F8D-000F97 000F99-000FBC 000FC6-000FC6",
   "00102D-001030 001032-001037 001039-00103A 00103D-00103E 001058-001059 00105E-001060",
   "001071-001074 001082-001082 001085-001086 00108D-00108D 00109D-00109D 0010FC-0010FC",
   "00135D-00135F 001712-001714 001732-001733 001752-001753 001772-001773 0017B4-0017B5",
   "0017B7-0017BD 0017C6-0017C6 0017C9-0017D3 0017D7-0017D7 0017DD-0017DD 00180B-00180F",
   "001843-001843 001885-001886 0018A9-0018A9 001920-001922 001927-001928 001932-001932",
   "001939-00193B 001A17-001A18 001A1B-001A1B 001A56-001A56 001A58-001A5E 001A60-001A60",
   "001A62-001A62 001A65-001A6C 001A73-001A7C 001A7F-001A7F 001AA7-001AA7 001AB0-001ACE",
   "001B00-001B03 001B34-001B34 001B36-001B3A 001B3C-001B3C 001B42-001B42 001B6B-001B73",
   "001B80-001B81 001BA2-001BA5 001BA8-001BA9 001BAB-001BAD 001BE6-001BE6 001BE8-001BE9",
   "001BED-001BED 001BEF-001BF1 001C2C-001C33 001C36-001C37 001C78-001C7D 001CD0-001CD2",
   "001CD4-001CE0 001CE2-001CE8 001CED-001CED 001CF4-001CF4 001CF8-001CF9 001D2C-001D6A",
   "001D78-001D78 001D9B-001DFF 001FBD-001FBD 001FBF-001FC1 001FCD-001FCF 001FDD-001FDF",
   "001FED-001FEF 001FFD-001FFE 00200B-00200F 002018-002019 002024-002024 002027-002027",
   "00202A-00202E 002060-002064 002066-00206F 002071-002071 00207F-00207F 002090-00209C",
   "0020D0-0020F0 002C7C-002C7D 002CEF-002CF1 002D6F-002D6F 002D7F-002D7F 002DE0-002DFF",
   "002E2F-002E2F 003005-003005 00302A-00302D 003031-003035 00303B-00303B 003099-00309E",
   "0030FC-0030FE 00A015-00A015 00A4F8-00A4FD 00A60C-00A60C 00A66F-00A672 00A674-00A67D",
   "00A67F-00A67F 00A69C-00A69F 00A6F0-00A6F1 00A700-00A721 00A770-00A770 00A788-00A78A",
   "00A7F2-00A7F4 00A7F8-00A7F9 00A802-00A802 00A806-00A806 00A80B-00A80B 00A825-00A826",
   "00A82C-00A82C 00A8C4-00A8C5 00A8E0-00A8F1 00A8FF-00A8FF 00A926-00A92D 00A947-00A951",
   "00A980-00A982 00A9B3-00A9B3 00A9B6-00A9B9 00A9BC-00A9BD 00A9CF-00A9CF 00A9E5-00A9E6",
   "00AA29-00AA2E 00AA31-00AA32 00AA35-00AA36 00AA43-00AA43 00AA4C-00AA4C 00AA70-00AA70",
   "00AA7C-00AA7C 00AAB0-00AAB0 00AAB2-00AAB4 00AAB7-00AAB8 00AABE-00AABF 00AAC1-00AAC1",
   "00AADD-00AADD 00AAEC-00AAED 00AAF3-00AAF4 00AAF6-00AAF6 00AB5B-00AB5F 00AB69-00AB6B",
   "00ABE5-00ABE5 00ABE8-00ABE8 00ABED-00ABED 00FB1E-00FB1E 00FBB2-00FBC2 00FE00-00FE0F",
   "00FE13-00FE13 00FE20-00FE2F 00FE52-00FE52 00FE55-00FE55 00FEFF-00FEFF 00FF07-00FF07",
   "00FF0E-00FF0E 00FF1A-00FF1A 00FF3E-00FF3E 00FF40-00FF40 00FF70-00FF70 00FF9E-00FF9F",
   "00FFE3-00FFE3 00FFF9-00FFFB 0101FD-0101FD 0102E0-0102E0 010376-01037A 010780-010785",
   "010787-0107B0 0107B2-0107BA 010A01-010A03 010A05-010A06 010A0C-010A0F 010A38-010A3A",
   "010A3F-010A3F 010AE5-010AE6 010D24-010D27 010EAB-010EAC 010F46-010F50 010F82-010F85",
   "011001-011001 011038-011046 011070-011070 011073-011074 01107F-011081 0110B3-0110B6",
   "0110B9-0110BA 0110BD-0110BD 0110C2-0110C2 0110CD-0110CD 011100-011102 011127-01112B",
   "01112D-011134 011173-011173 011180-011181 0111B6-0111BE 0111C9-0111CC 0111CF-0111CF",
   "01122F-011231 011234-011234 011236-011237 01123E-01123E 0112DF-0112DF 0112E3-0112EA",
   "011300-011301 01133B-01133C 011340-011340 011366-01136C 011370-011374 011438-01143F",
   "011442-011444 011446-011446 01145E-01145E 0114B3-0114B8 0114BA-0114BA 0114BF-0114C0",
   "0114C2-0114C3 0115B2-0115B5 0115BC-0115BD 0115BF-0115C0 0115DC-0115DD 011633-01163A",
   "01163D-01163D 01163F-011640 0116AB-0116AB 0116AD-0116AD 0116B0-0116B5 0116B7-0116B7",
   "01171D-01171F 011722-011725 011727-01172B 01182F-011837 011839-01183A 01193B-01193C",
   "01193E-01193E 011943-011943 0119D4-0119D7 0119DA-0119DB 0119E0-0119E0 011A01-011A0A",
   "011A33-011A38 011A3B-011A3E 011A47-011A47 011A51-011A56 011A59-011A5B 011A8A-011A96",
   "011A98-011A99 011C30-011C36 011C38-011C3D 011C3F-011C3F 011C92-011CA7 011CAA-011CB0",
   "011CB2-011CB3 011CB5-011CB6 011D31-011D36 011D3A-011D3A 011D3C-011D3D 011D3F-011D45",
   "011D47-011D47 011D90-011D91 011D95-011D95 011D97-011D97 011EF3-011EF4 013430-013438",
   "016AF0-016AF4 016B30-016B36 016B40-016B43 016F4F-016F4F 016F8F-016F9F 016FE0-016FE1",
   "016FE3-016FE4 01AFF0-01AFF3 01AFF5-01AFFB 01AFFD-01AFFE 01BC9D-01BC9E 01BCA0-01BCA3",
   "01CF00-01CF2D 01CF30-01CF46 01D167-01D169 01D173-01D182 01D185-01D18B 01D1AA-01D1AD",
   "01D242-01D244 01DA00-01DA36 01DA3B-01DA6C 01DA75-01DA75 01DA84-01DA84 01DA9B-01DA9F",
   "01DAA1-01DAAF 01E000-01E006 01E008-01E018 01E01B-01E021 01E023-01E024 01E026-01E02A",
   "01E130-01E13D 01E2AE-01E2AE 01E2EC-01E2EF 01E8D0-01E8D6 01E944-01E94B 01F3FB-01F3FF",
   "0E0001-0E0001 0E0020-0E007F 0E0100-0E01EF"
  >>

CaseIgnorable == {"'", ".", ":", "^"} \cup CharactersOf(CaseIgnorableRanges)

\* c.lower() of one character on its own, as a string
LowerChar(c) ==
  IF Len(c) = 1 THEN (IF c \in DOMAIN LowerOf THEN <<LowerOf[c]>> ELSE <<c>>)
  ELSE IF c = CapitalIWithDot THEN <<"i", CombiningDot>>
  ELSE IF c \in DOMAIN LowerOfNonAscii THEN <<LowerOfNonAscii[c]>>
  ELSE <<c>>

\* one character of str.upper(), for the letters a to z
UpperChar(c) == IF c \in DOMAIN UpperOf THEN UpperOf[c] ELSE c

\* str.lower() at a capital sigma: the final form at the end of a word
FinalSigma(s, i) ==
  LET before == {j \in 1..(i - 1) : s[j] \notin CaseIgnorable}
      after == {j \in (i + 1)..Len(s) : s[j] \notin CaseIgnorable}
  IN  /\ before # {}
      /\ s[CHOOSE j \in before : \A k \in before : k <= j] \in CasedCharacters
      /\ \/ after = {}
         \/ s[CHOOSE j \in after : \A k \in after : j <= k] \notin CasedCharacters

\* what str.lower() puts for the character at position i of s
LowerAt(s, i) ==
  IF s[i] = CapitalSigma
    THEN (IF FinalSigma(s, i) THEN <<FinalSmallSigma>> ELSE <<SmallSigma>>)
    ELSE LowerChar(s[i])

\* str.lower()
RECURSIVE LowerFrom(_, _)
LowerFrom(s, i) == IF i > Len(s) THEN <<>> ELSE LowerAt(s, i) \o LowerFrom(s, i + 1)
ToLower(s) ==
  IF \A i \in 1..Len(s) : s[i] # CapitalIWithDot
    THEN [i \in 1..Len(s) |-> LowerAt(s, i)[1]]
    ELSE LowerFrom(s, 1)

\* str.upper(), for texts of the characters up to U+007F
ToUpper(s) == [i \in 1..Len(s) |-> UpperChar(s[i])]

\* str.strip(): leading and trailing whitespace removed
RECURSIVE FirstKept(_, _)
FirstKept(s, i) ==
  IF i > Len(s) \/ s[i] \notin Whitespace THEN i ELSE FirstKept(s, i + 1)
RECURSIVE LastKept(_, _)
LastKept(s, i) ==
  IF i < 1 \/ s[i] \notin Whitespace THEN i ELSE LastKept(s, i - 1)
Strip(s) == SubSeq(s, FirstKept(s, 1), LastKept(s, Len(s)))

\* needle in hay (Python's substring test; the empty needle is in every string)
Contains(hay, needle) ==
  \/ Len(needle) = 0
  \/ \E k \in 0..(Len(hay) - Len(needle)) :
       /\ hay[k + 1] = needle[1]
       /\ SubSeq(hay, k + 1, k + Len(needle)) = needle

\* c * n
Repeat(c, n) == [i \in 1..n |-> c]

(***************************************************************************)
(* 15_supplementary_crawl.py: is_problematic_content                       *)
(***************************************************************************)
\* the length threshold of the "very short content" rule
MinContentLength == 50

\* the list of security challenge indicators, as written in the source
security_indicators ==
  << <<"J", "u", "s", "t", " ", "a", " ", "m", "o", "m", "e", "n", "t", ".", ".", ".">>,
     <<"E", "n", "a", "b", "l", "e", " ", "J", "a", "v", "a", "S", "c", "r", "i", "p", "t", " ", "a", "n", "d", " ", "c", "o", "o", "k", "i", "e", "s", " ", "t", "o", " ", "c", "o", "n", "t", "i", "n", "u", "e">>,
     <<"P", "l", "e", "a", "s", "e", " ", "e", "n", "a", "b", "l", "e", " ", "c", "o", "o", "k", "i", "e", "s">>,
     <<"C", "h", "e", "c", "k", "i", "n", "g", " ", "y", "o", "u", "r", " ", "b", "r", "o", "w", "s", "e", "r">>,
     <<"A", "c", "c", "e", "s", "s", " ", "d", "e", "n", "i", "e", "d">>,
     <<"4", "0", "3", " ", "F", "o", "r", "b", "i", "d", "d", "e", "n">>,
     <<"4", "0", "4", " ", "N", "o", "t", " ", "F", "o", "u", "n", "d">>,
     <<"5", "0", "0", " ", "I", "n", "t", "e", "r", "n", "a", "l", " ", "S", "e", "r", "v", "e", "r", " ", "E", "r", "r", "o", "r">>,
     <<"R", "a", "y", " ", "I", "D", ":">>,
     <<"P", "l", "e", "a", "s", "e", " ", "v", "e", "r", "i", "f", "y", " ", "y", "o", "u", " ", "a", "r", "e", " ", "a", " ", "h", "u", "m", "a", "n">>,
     <<"S", "e", "c", "u", "r", "i", "t", "y", " ", "c", "h", "e", "c", "k">>,
     <<"c", "a", "p", "t", "c", "h", "a">>,
     <<"C", "A", "P", "T", "C", "H", "A">> >>

\* indicator.lower() of every indicator
LoweredIndicators ==
  [n \in 1..Len(security_indicators) |-> ToLower(security_indicators[n])]

\* the substring loop over the lower-cased content without the case folding
\* of the content (a variant of IndicatorFound)
IndicatorFoundCaseSensitive(str) ==
  \E n \in 1..Len(security_indicators) : Contains(str, LoweredIndicators[n])

\* the loop over security_indicators: indicator.lower() in content.lower()
IndicatorFound(str) ==
  LET content_lower == ToLower(str)
  IN  \E n \in 1..Len(security_indicators) : Contains(content_lower, LoweredIndicators[n])

\* the short-content rule with the threshold off by one (a variant of TooShort)
TooShortOffByOne(str) == Len(Strip(str)) < MinContentLength - 1

\* the short-content rule measuring the raw string, not the stripped one
\* (a variant of TooShort)
TooShortUnstripped(str) == Len(str) < MinContentLength

\* len(content.strip()) < 50
TooShort(str) == Len(Strip(str)) < MinContentLength

\* is_problematic_content(content)
IsProblematicContent(str) ==
  IF Len(str) = 0 THEN TRUE
  ELSE IF TooShort(str) THEN TRUE
  ELSE IndicatorFound(str)

(***************************************************************************)
(* The strings the classifier is applied to: whitespace, filler, a phrase  *)
(* (none, an indicator of the source, or a marker as the specification     *)
(* words it, in several spellings), filler, whitespace.                    *)
(***************************************************************************)
\* the challenge-phrase list as the specification words it
SpecMarkers ==
  << <<"j", "u", "s", "t", " ", "a", " ", "m", "o", "m", "e", "n", "t">>,
     <<"e", "n", "a", "b", "l", "e", " ", "j", "a", "v", "a", "s", "c", "r", "i", "p", "t", " ", "a", "n", "d", " ", "c", "o", "o", "k", "i", "e", "s">>,
     <<"c", "h", "e", "c", "k", "i", "n", "g", " ", "y", "o", "u", "r", " ", "b", "r", "o", "w", "s", "e", "r">>,
     <<"a", "c", "c", "e", "s", "s", " ", "d", "e", "n", "i", "e", "d">>,
     <<"4", "0", "3", " ", "f", "o", "r", "b", "i", "d", "d", "e", "n">>,
     <<"4", "0", "4", " ", "n", "o", "t", " ", "f", "o", "u", "n", "d">>,
     <<"5", "0", "0", " ", "i", "n", "t", "e", "r", "n", "a", "l", " ", "s", "e", "r", "v", "e", "r", " ", "e", "r", "r", "o", "r">>,
     <<"r", "a", "y", " ", "i", "d", ":">>,
     <<"v", "e", "r", "i", "f", "y", " ", "y", "o", "u", " ", "a", "r", "e", " ", "a", " ", "h", "u", "m", "a", "n">>,
     <<"s", "e", "c", "u", "r", "i", "t", "y", " ", "c", "h", "e", "c", "k">>,
     <<"c", "a", "p", "t", "c", "h", "a">> >>

\* trailing whitespace of a page: line ends "\r\n"
LineEnds == [i \in 1..(MaxSpaces + 1) |-> IF i % 2 = 1 THEN "\r" ELSE "\n"]

FillLens == {n \in 0..MaxFill : n % 25 \in {0, 1, 24}}

\* two spellings with a character above U+007F: KELVIN SIGN, whose lower case
\* is "k", and capital I with dot above, whose lower case is not "i" alone
KelvinPhrase ==
  <<"s", "e", "c", "u", "r", "i", "t", "y", " ", "c", "h", "e", "c", "U+212A">>
DottedPhrase == <<"R", "A", "Y", " ", CapitalIWithDot, "D", ":">>

\* leading whitespace of a page: spaces, or ideographic spaces
LeadingSpaces == {" ", "U+3000"}

Phrases ==
  {<<>>, KelvinPhrase, DottedPhrase}
  \cup {security_indicators[n] : n \in 1..Len(security_indicators)}
  \cup {ToUpper(security_indicators[n]) : n \in 1..Len(security_indicators)}
  \cup {SpecMarkers[n] : n \in 1..Len(SpecMarkers)}
  \cup {ToUpper(SpecMarkers[n]) : n \in 1..Len(SpecMarkers)}

ContentInputs ==
  {Repeat(w, l) \o Repeat("x", a) \o ph \o Repeat("y", b) \o SubSeq(LineEnds, 1, t) :
     w \in LeadingSpaces, l \in 0..MaxSpaces, a \in FillLens, ph \in Phrases,
     b \in FillLens, t \in {0, MaxSpaces}}

InitClassify ==
  /\ content \in ContentInputs
  /\ verdict = <<>>
  /\ ChunkerIdle
  /\ ValidatorIdle
  /\ IndexerIdle
  /\ StoreIdle
  /\ RetrievalIdle
  /\ CrawlerIdle
  /\ ConnectionsIdle

\* one call of is_problematic_content(content)
Classify ==
  /\ verdict = <<>>
  /\ verdict' = <<IsProblematicContent(content)>>
  /\ UNCHANGED <<content, chkVars, valVars, idxVars, storeVars, response,
                 crawlVars, connVars>>

NextClassify == Classify

SpecClassify == InitClassify /\ [][NextClassify]_vars

(***************************************************************************)
(* 2_index_docs.py: the chunker.  TokenChunker with the "word" tokenizer   *)
(* works on the body's words; a body is the sequence of its words.  The    *)
(* chunker slides a window of chunk_size tokens forward by                 *)
(* chunk_size - chunk_overlap tokens until a window reaches the end, and   *)
(* returns no chunk for a body without words.                              *)
(***************************************************************************)
\* chunk_size=512
ChunkSize == 512
\* chunk_overlap=128
ChunkOverlap == 128

Min(a, b) == IF a <= b THEN a ELSE b

\* a stride that ignores the overlap (a variant of ChunkStride)
ChunkStrideNoOverlap == ChunkSize

\* the distance between the starts of consecutive windows
ChunkStride == ChunkSize - ChunkOverlap

\* the windows from 0-based token offset start on, in order
RECURSIVE WindowsFrom(_, _)
WindowsFrom(tokens, start) ==
  LET end == Min(start + ChunkSize, Len(tokens))
  IN  <<SubSeq(tokens, start + 1, end)>>
        \o (IF end = Len(tokens) THEN <<>> ELSE WindowsFrom(tokens, start + ChunkStride))

\* a chunker that gives one empty chunk for a text without a token (a variant
\* of ChunkerChunk)
ChunkerChunkOneForEmpty(tokens) ==
  IF Len(tokens) = 0 THEN <<tokens>> ELSE WindowsFrom(tokens, 0)

\* chunker.chunk(text): the texts of the chunks, in order
ChunkerChunk(tokens) ==
  IF Len(tokens) = 0 THEN <<>> ELSE WindowsFrom(tokens, 0)

\* enumerate(text_chunks): each chunk with its chunk_no
EnumerateChunks(tokens) ==
  LET ws == ChunkerChunk(tokens)
  IN  [i \in 1..Len(ws) |-> [chunk_no |-> i - 1, chunk |-> ws[i]]]

\* the body lengths chunked: the short ones and those around each window boundary
BodyLengths ==
  {0, 1, 2}
  \cup {ChunkOverlap + d : d \in -2..2}
  \cup {w * ChunkStride + d : w \in 1..MaxWindows, d \in -2..2}
  \cup {ChunkSize + (w - 1) * ChunkStride + d : w \in 1..MaxWindows, d \in -2..2}

\* a body of n words: all different, or cycling through period words
BodyOf(n, period) == [i \in 1..n |-> IF period = 0 THEN i ELSE i % period]

BodyInputs == {BodyOf(n, period) : n \in BodyLengths, period \in {0, 3}}

InitChunk ==
  /\ text \in BodyInputs
  /\ text_chunks = <<>>
  /\ ClassifierIdle
  /\ ValidatorIdle
  /\ IndexerIdle
  /\ StoreIdle
  /\ RetrievalIdle
  /\ CrawlerIdle
  /\ ConnectionsIdle

\* one document of the chunk loop: chunker.chunk(text) and its enumeration
ChunkDocument ==
  /\ text_chunks = <<>>
  /\ text_chunks' = <<EnumerateChunks(text)>>
  /\ UNCHANGED <<text, clsVars, valVars, idxVars, storeVars, response,
                 crawlVars, connVars>>

NextChunk == ChunkDocument

SpecChunk == InitChunk /\ [][NextChunk]_vars

(***************************************************************************)
(* 15_supplementary_crawl.py: retry_scrape_url, process_file, main         *)
(***************************************************************************)
\* the names of the snapshot files
FileNames == {"f1", "f2"}

\* a clean text of exactly 50 characters
CleanText == Repeat("x", MinContentLength)
\* another clean text, as a re-fetch may return it
FreshText == Repeat("y", MinContentLength + 10)
\* a text one character too short
ShortText == Repeat("x", MinContentLength - 1)
\* a long text holding a challenge indicator
ChallengeText == security_indicators[1] \o Repeat("x", MinContentLength)

\* the texts a snapshot entry may hold
EntryTexts == {CleanText, FreshText, ShortText, ChallengeText}

\* what one re-fetch may come to: crawler.arun raises, returns no result, or
\* returns a result whose markdown is one of these texts
FetchOutcomes ==
  {[kind |-> "exception", markdown |-> <<>>], [kind |-> "no_result", markdown |-> <<>>]}
  \cup {[kind |-> "result", markdown |-> t] : t \in {FreshText, ChallengeText}}

\* the snapshots of one file: a dict from some of the URLs 1..MaxUrls to texts
SnapshotInputs ==
  UNION {[urls -> EntryTexts] : urls \in SUBSET (1..MaxUrls)}

\* the snapshots of the second file
SecondSnapshotInputs ==
  {s \in SnapshotInputs : DOMAIN s \subseteq {1} /\ \A u \in DOMAIN s : s[u] \in {CleanText, ShortText}}

\* the elements of a set of numbers in increasing order (data.items() order)
RECURSIVE SortedSeq(_)
SortedSeq(S) ==
  IF S = {} THEN <<>>
  ELSE LET lo == CHOOSE x \in S : \A y \in S : x <= y
       IN  <<lo>> \o SortedSeq(S \ {lo})

\* a first pass that lists every URL (a variant of ProblematicUrls)
ProblematicUrlsAll(d) == SortedSeq(DOMAIN d)

\* the first pass of process_file: the URLs whose content is problematic
ProblematicUrls(d) ==
  SortedSeq({url \in DOMAIN d : IsProblematicContent(d[url])})

\* retry_scrape_url without the check of the new content (a variant)
RetryScrapeUrlUnchecked(outcome) ==
  IF outcome.kind = "result" THEN <<outcome.markdown>> ELSE <<>>

\* retry_scrape_url(url) for a re-fetch that came to outcome: <<>> is None,
\* <<markdown>> the string returned
RetryScrapeUrl(outcome) ==
  IF outcome.kind = "exception" THEN <<>>
  ELSE IF outcome.kind = "no_result" THEN <<>>
  ELSE IF IsProblematicContent(outcome.markdown) THEN <<>>
  ELSE <<outcome.markdown>>

\* a retry loop that stays on a URL whose retry failed (a variant of AfterRetry)
AfterRetryAgainOnFailure(urls, new_content) ==
  IF new_content = <<>> /\ Len(refetches) < 2 * MaxUrls THEN urls ELSE Tail(urls)

\* the for loop over problematic_urls moving on: what is left after one retry
AfterRetry(urls, new_content) == Tail(urls)

\* Python's truth value of new_content (None and "" are false)
Truthy(new_content) == new_content # <<>> /\ Len(new_content[1]) > 0

InitValidate ==
  /\ \E files \in SUBSET FileNames :
       /\ "f2" \in files => "f1" \in files
       /\ rawDir \in {d \in [files -> SnapshotInputs] :
                        "f2" \in files => d["f2"] \in SecondSnapshotInputs}
  /\ processedDir = <<>>
  /\ vpc = "start"
  /\ json_files = {}
  /\ input_file = <<>>
  /\ data = <<>>
  /\ todo_urls = <<>>
  /\ retry_count = 0
  /\ success_count = 0
  /\ refetches = <<>>
  /\ printed = {}
  /\ ClassifierIdle
  /\ ChunkerIdle
  /\ IndexerIdle
  /\ StoreIdle
  /\ RetrievalIdle
  /\ CrawlerIdle
  /\ ConnectionsIdle

\* main(): list the JSON files; return when there is none
ListFiles ==
  /\ vpc = "start"
  /\ json_files' = DOMAIN rawDir
  /\ IF DOMAIN rawDir = {}
       THEN /\ vpc' = "done"
            /\ printed' = printed \cup {[line |-> "No JSON files found"]}
       ELSE /\ vpc' = "main"
            /\ UNCHANGED printed
  /\ UNCHANGED <<rawDir, processedDir, input_file, data, todo_urls, retry_count,
                 success_count, refetches, clsVars, chkVars, idxVars, storeVars,
                 response, crawlVars, connVars>>

\* process_file(f) up to the second pass: load the file, find the problematic URLs
ProcessFileStart(f) ==
  /\ vpc = "main"
  /\ f \in json_files
  /\ json_files' = json_files \ {f}
  /\ input_file' = <<f>>
  /\ data' = rawDir[f]
  /\ todo_urls' = ProblematicUrls(rawDir[f])
  /\ retry_count' = 0
  /\ success_count' = 0
  /\ vpc' = IF ProblematicUrls(rawDir[f]) = <<>> THEN "save" ELSE "retry"
  /\ UNCHANGED <<rawDir, processedDir, refetches, printed, clsVars, chkVars,
                 idxVars, storeVars, response, crawlVars, connVars>>

\* a round of the second pass begins: retry_count += 1, then process_file
\* waits in await retry_scrape_url(url)
BeginRetry ==
  /\ vpc = "retry"
  /\ todo_urls # <<>>
  /\ retry_count' = retry_count + 1
  /\ vpc' = "await"
  /\ UNCHANGED <<rawDir, processedDir, json_files, input_file, data, todo_urls,
                 success_count, refetches, printed, clsVars, chkVars, idxVars,
                 storeVars, response, crawlVars, connVars>>

\* the round ends: retry_scrape_url(url) has returned, then replace or keep
RetryOne(outcome) ==
  /\ vpc = "await"
  /\ todo_urls # <<>>
  /\ LET url == Head(todo_urls)
         new_content == RetryScrapeUrl(outcome)
     IN  /\ refetches' = Append(refetches,
                           [file |-> input_file[1], url |-> url,
                            cache_mode |-> "BYPASS", outcome |-> outcome])
         /\ IF Truthy(new_content)
              THEN /\ data' = [data EXCEPT ![url] = new_content[1]]
                   /\ success_count' = success_count + 1
                   /\ UNCHANGED printed
              ELSE /\ printed' = printed \cup
                        {[line |-> "Keeping original content", file |-> input_file[1],
                          url |-> url]}
                   /\ UNCHANGED <<data, success_count>>
         /\ todo_urls' = AfterRetry(todo_urls, new_content)
         /\ vpc' = IF AfterRetry(todo_urls, new_content) = <<>> THEN "save" ELSE "retry"
  /\ UNCHANGED <<rawDir, processedDir, json_files, input_file, retry_count,
                 clsVars, chkVars, idxVars, storeVars, response, crawlVars, connVars>>

\* PROCESSED_DOCS_DIR names the directory CRAWLED_DOCS_DIR names (a variant
\* of SeparateDirectories)
SharedDirectory == FALSE

\* utils.py: PROCESSED_DOCS_DIR names another directory than CRAWLED_DOCS_DIR
\* ("a separate processed snapshot directory")
SeparateDirectories == TRUE

\* a directory after json.dump(written) to the file of that name in it
WriteFile(dir, name, written) ==
  [g \in DOMAIN dir \cup {name} |-> IF g = name THEN written ELSE dir[g]]

\* main(): write what process_file returned to the processed directory
SaveFile ==
  /\ vpc = "save"
  /\ processedDir' = WriteFile(processedDir, input_file[1], data)
  /\ rawDir' = IF SeparateDirectories THEN rawDir
                ELSE WriteFile(rawDir, input_file[1], data)
  /\ input_file' = <<>>
  /\ vpc' = IF json_files = {} THEN "done" ELSE "main"
  /\ UNCHANGED <<json_files, data, todo_urls, retry_count,
                 success_count, refetches, printed, clsVars, chkVars, idxVars,
                 storeVars, response, crawlVars, connVars>>

NextValidate ==
  \/ ListFiles
  \/ \E f \in FileNames : ProcessFileStart(f)
  \/ BeginRetry
  \/ \E outcome \in FetchOutcomes : RetryOne(outcome)
  \/ SaveFile

SpecValidate == InitValidate /\ [][NextValidate]_vars

(***************************************************************************)
(* 2_index_docs.py: the indexing run over the snapshot directory.          *)
(* File stems, product names and paths are strings (sequences of           *)
(* characters); a body is the sequence of its words.  A collection of the  *)
(* store is the list of its objects; an object added under the uuid of an  *)
(* object already there replaces it.  1_get_docs.py and 0_reset_db.py are   *)
(* scripts of their own and nothing keeps them from running while the      *)
(* indexing run goes on: the crawler's write of a file (open, then dump)   *)
(* and the four calls of the reset are steps between the steps of a run.   *)
(***************************************************************************)
\* batch_size=50
BatchSize == 50

\* the stems of the snapshot files: "a_d" and "a-b_d"
StemA == <<"a", "_", "d">>
StemAB == <<"a", "-", "b", "_", "d">>
Stems == {StemA, StemAB}

\* the URLs of the pages: "https://d/p" and "https://d/p-chunk-1"
PathP == <<"h", "t", "t", "p", "s", ":", "/", "/", "d", "/", "p">>
PathPChunk == PathP \o <<"-", "c", "h", "u", "n", "k", "-", "1">>
\* the keys of a snapshot, in the order the file lists them
Paths == <<PathP, PathPChunk>>

\* a body of n one-letter words: "b c a b c a ..."
WordBody(n) == [i \in 1..n |-> LowerLetters[(i % 3) + 1]]

\* the bodies of the pages: no word, two words, one word more than a window
EmptyBody == <<>>
ShortBody == WordBody(2)
LongBody == WordBody(ChunkSize + 1)
Bodies == {EmptyBody, ShortBody, LongBody}

\* the snapshots of the first file: a dict from some of the paths to bodies
IndexSnapshots ==
  UNION {[ps -> Bodies] : ps \in SUBSET {Paths[i] : i \in 1..Len(Paths)}}

\* the snapshot directories: file "a_d", alone or beside a one-page file "a-b_d"
DirInputs ==
  {[s \in {StemA} |-> d] : d \in IndexSnapshots}
  \cup {[s \in Stems |-> IF s = StemA THEN d ELSE [q \in {PathP} |-> ShortBody]] :
          d \in IndexSnapshots}

\* crawled_doc_path.stem.split("_")[0]
RECURSIVE UpToUnderscore(_, _)
UpToUnderscore(stem, i) ==
  IF i > Len(stem) \/ stem[i] = "_" THEN SubSeq(stem, 1, i - 1)
  ELSE UpToUnderscore(stem, i + 1)
VdbName(stem) == UpToUnderscore(stem, 1)

\* str(i) for a natural number i
DigitChars == <<"0", "1", "2", "3", "4", "5", "6", "7", "8", "9">>
RECURSIVE StrOfNat(_)
StrOfNat(i) ==
  IF i < 10 THEN <<DigitChars[i + 1]>>
  ELSE StrOfNat(i \div 10) \o <<DigitChars[(i % 10) + 1]>>

\* generate_uuid5(identifier, namespace): the UUID version 5 of the name
\* str(namespace) + str(identifier); the UUID stands for its name here (two
\* names are taken to have different UUIDs)
GenerateUuid5(identifier, namespace) == namespace \o identifier

\* a name without the chunk number (a variant of ChunkNamespace)
ChunkNamespaceWithoutNumber(vdb_name, path, i) ==
  vdb_name \o <<"-">> \o path \o <<"-", "c", "h", "u", "n", "k">>

\* f"{vdb_name}-{path}-chunk-{i}"
ChunkNamespace(vdb_name, path, i) ==
  vdb_name \o <<"-">> \o path \o <<"-", "c", "h", "u", "n", "k", "-">> \o StrOfNat(i)

\* f"{vdb_name}-{path}"
DocumentNamespace(vdb_name, path) == vdb_name \o <<"-">> \o path

\* the objects the chunk loop adds for one page (none when there is no chunk)
ChunkObjects(vdb_name, path, body) ==
  LET cs == EnumerateChunks(body)
  IN  [k \in 1..Len(cs) |->
         [uuid |-> GenerateUuid5(<<"C", "h", "u", "n", "k", "s">>,
                                 ChunkNamespace(vdb_name, path, cs[k].chunk_no)),
          product |-> vdb_name, chunk |-> cs[k].chunk, chunk_no |-> cs[k].chunk_no,
          path |-> path]]

\* the object the document loop adds for one page
DocumentObject(vdb_name, path, body) ==
  [uuid |-> GenerateUuid5(<<"D", "o", "c", "u", "m", "e", "n", "t", "s">>,
                          DocumentNamespace(vdb_name, path)),
   product |-> vdb_name, body |-> body, path |-> path]

\* a store that adds the object beside one of the same uuid (a variant of Upsert)
InsertAlways(coll, obj) == Append(coll, obj)

\* the store takes one object of a batch: it replaces the object of that uuid
Upsert(coll, obj) ==
  IF \E i \in 1..Len(coll) : coll[i].uuid = obj.uuid
    THEN [i \in 1..Len(coll) |-> IF coll[i].uuid = obj.uuid THEN obj ELSE coll[i]]
    ELSE Append(coll, obj)

\* the store takes the objects of a batch, in order
RECURSIVE UpsertAll(_, _)
UpsertAll(coll, objs) ==
  IF objs = <<>> THEN coll ELSE UpsertAll(Upsert(coll, Head(objs)), Tail(objs))

\* the objects of the open batch that go out once batch_size of them are waiting
FullBatches(objs) == SubSeq(objs, 1, (Len(objs) \div BatchSize) * BatchSize)
\* the objects still waiting after that
AfterFullBatches(objs) ==
  SubSeq(objs, (Len(objs) \div BatchSize) * BatchSize + 1, Len(objs))

\* crawled_doc_dict.items(): the paths of a snapshot in the file's order
Items(d) == SelectSeq(Paths, LAMBDA q : q \in DOMAIN d)

InitIndex ==
  /\ snapDir \in DirInputs
  /\ dumping = <<>>
  /\ gpc = "off"
  /\ chunksColl = <<>>
  /\ docsColl = <<>>
  /\ existing = {"Chunks", "Documents"}
  /\ autoschema \in BOOLEAN
  /\ rpc = "off"
  /\ ipc = "idle"
  /\ crawled_doc_paths = {}
  /\ crawled_doc_path = <<>>
  /\ crawled_doc_dict = <<>>
  /\ todo_items = <<>>
  /\ batch = <<>>
  /\ runNo = 0
  /\ history = <<>>
  /\ logged = <<>>
  /\ failed_objects = <<>>
  /\ ClassifierIdle
  /\ ChunkerIdle
  /\ ValidatorIdle
  /\ RetrievalIdle
  /\ CrawlerIdle
  /\ ConnectionsIdle

\* the entries of failed_objects for the objects of a collection
Failed(collection, objs) ==
  [k \in 1..Len(objs) |-> [collection |-> collection, object |-> objs[k]]]

\* a batch of the run reaches the store.  While 0_reset_db.py has deleted the
\* collection and not yet created it again, the store, as it is set up,
\* either makes the collection for the objects and keeps them, or rejects
\* them, and the client lists them in failed_objects
SendChunks(objs) ==
  IF objs = <<>> \/ "Chunks" \in existing \/ autoschema
    THEN /\ chunksColl' = UpsertAll(chunksColl, objs)
         /\ existing' = IF objs = <<>> THEN existing ELSE existing \cup {"Chunks"}
         /\ UNCHANGED failed_objects
    ELSE /\ failed_objects' = failed_objects \o Failed("Chunks", objs)
         /\ UNCHANGED <<chunksColl, existing>>
SendDocuments(objs) ==
  IF objs = <<>> \/ "Documents" \in existing \/ autoschema
    THEN /\ docsColl' = UpsertAll(docsColl, objs)
         /\ existing' = IF objs = <<>> THEN existing ELSE existing \cup {"Documents"}
         /\ UNCHANGED failed_objects
    ELSE /\ failed_objects' = failed_objects \o Failed("Documents", objs)
         /\ UNCHANGED <<docsColl, existing>>

\* the last entry of history is that of the run going on, if one is
RunGoingOn == history # <<>> /\ ~history[Len(history)].ended

\* what a start of the script can meet: the store answers and COHERE_API_KEY
\* is set, the store does not answer, or os.getenv("COHERE_API_KEY") is None
StartupFailures == {"store_unreachable", "credential_missing"}
Conditions == {"none"} \cup StartupFailures

\* a client that opens the connection with a header of None and raises
\* only when the store does not answer (a variant of ConnectToLocal)
ConnectToLocalAnyHeader(condition) ==
  IF condition = "store_unreachable" THEN "raises" ELSE "connected"

\* weaviate.connect_to_local(headers={"X-Cohere-Api-Key": os.getenv(...)}):
\* the client raises when the store does not answer and when a header value
\* is None, and is connected otherwise
ConnectToLocal(condition) ==
  IF condition \in StartupFailures THEN "raises" ELSE "connected"

\* the script starts: connect, make the generator of the directory's files
\* (glob reads nothing yet), take the handles of the collections.  history
\* gets the run's entry: what the start met, the store as the run finds it,
\* and whether 0_reset_db.py is at work
StartRun(condition) ==
  /\ ipc \in {"idle", "aborted"}
  /\ runNo < MaxRuns
  /\ ConnectToLocal(condition) = "connected"
  /\ runNo' = runNo + 1
  /\ crawled_doc_paths' = {}
  /\ crawled_doc_path' = <<>>
  /\ crawled_doc_dict' = <<>>
  /\ todo_items' = <<>>
  /\ batch' = <<>>
  /\ ipc' = "started"
  /\ history' = Append(history,
       [dir |-> <<>>, before_chunks |-> chunksColl, before_docs |-> docsColl,
        chunks |-> <<>>, docs |-> <<>>, ended |-> FALSE, aborted |-> FALSE,
        reset |-> rpc \notin {"off", "done", "aborted"}, condition |-> condition])
  /\ UNCHANGED <<logged, failed_objects, snapDir, dumping, gpc, storeVars, clsVars,
                 chkVars, valVars, response, crawlVars, connVars>>

\* the for statement asks the generator for its first file: the directory is
\* listed now, with the files written since the script started
ListDirectory ==
  /\ ipc = "started"
  /\ crawled_doc_paths' = DOMAIN snapDir
  /\ ipc' = "files"
  /\ UNCHANGED <<logged, failed_objects, snapDir, dumping, gpc, crawled_doc_path,
                 crawled_doc_dict, todo_items, batch, runNo, history, storeVars,
                 clsVars, chkVars, valVars, response, crawlVars, connVars>>

\* the outer loop takes a file, loads it and opens the chunk batch
NextFile(stem) ==
  /\ ipc = "files"
  /\ stem \in crawled_doc_paths
  /\ stem \notin DOMAIN dumping
  /\ crawled_doc_paths' = crawled_doc_paths \ {stem}
  /\ crawled_doc_path' = <<stem>>
  /\ crawled_doc_dict' = [s \in DOMAIN crawled_doc_dict \cup {stem} |->
                            IF s = stem THEN snapDir[stem] ELSE crawled_doc_dict[s]]
  /\ todo_items' = Items(snapDir[stem])
  /\ batch' = <<>>
  /\ ipc' = "chunks"
  /\ UNCHANGED <<logged, failed_objects, snapDir, dumping, gpc, runNo, history, storeVars,
                 clsVars, chkVars, valVars, response, crawlVars, connVars>>

\* the outer loop takes a file that 1_get_docs.py has opened for writing and
\* not yet dumped: the text read is empty or cut, json.loads raises, nothing
\* catches it and the script dies without client.close(); the files after
\* it are not indexed
NextFileRaises(stem) ==
  /\ ipc = "files"
  /\ stem \in crawled_doc_paths
  /\ stem \in DOMAIN dumping
  /\ crawled_doc_path' = <<stem>>
  /\ ipc' = "aborted"
  /\ history' = [history EXCEPT ![Len(history)] =
       [@ EXCEPT !.dir = crawled_doc_dict, !.chunks = chunksColl, !.docs = docsColl,
                 !.ended = TRUE, !.aborted = TRUE]]
  /\ UNCHANGED <<logged, failed_objects, snapDir, dumping, gpc, crawled_doc_paths,
                 crawled_doc_dict, todo_items, batch, runNo, storeVars, clsVars,
                 chkVars, valVars, response, crawlVars, connVars>>

\* one page of the chunk loop: chunk the text, add every chunk to the batch
AddChunks ==
  /\ ipc = "chunks"
  /\ todo_items # <<>>
  /\ LET stem == crawled_doc_path[1]
         path == Head(todo_items)
         added == batch \o ChunkObjects(VdbName(stem), path,
                                        crawled_doc_dict[stem][path])
     IN  /\ SendChunks(FullBatches(added))
         /\ batch' = AfterFullBatches(added)
  /\ todo_items' = Tail(todo_items)
  /\ UNCHANGED <<logged, snapDir, dumping, gpc, crawled_doc_dict, ipc, crawled_doc_paths,
                 crawled_doc_path, runNo, history, docsColl, autoschema, rpc, clsVars, chkVars,
                 valVars, response, crawlVars, connVars>>

\* the chunk batch closes: what is waiting is sent; the document batch opens
ExitChunkBatch ==
  /\ ipc = "chunks"
  /\ todo_items = <<>>
  /\ SendChunks(batch)
  /\ batch' = <<>>
  /\ todo_items' = Items(crawled_doc_dict[crawled_doc_path[1]])
  /\ ipc' = "documents"
  /\ UNCHANGED <<logged, snapDir, dumping, gpc, crawled_doc_dict, crawled_doc_paths,
                 crawled_doc_path, runNo, history, docsColl, autoschema, rpc, clsVars, chkVars,
                 valVars, response, crawlVars, connVars>>

\* one page of the document loop: add the document to the batch
AddDocument ==
  /\ ipc = "documents"
  /\ todo_items # <<>>
  /\ LET stem == crawled_doc_path[1]
         path == Head(todo_items)
         added == Append(batch, DocumentObject(VdbName(stem), path,
                                               crawled_doc_dict[stem][path]))
     IN  /\ SendDocuments(FullBatches(added))
         /\ batch' = AfterFullBatches(added)
  /\ todo_items' = Tail(todo_items)
  /\ UNCHANGED <<logged, snapDir, dumping, gpc, crawled_doc_dict, ipc, crawled_doc_paths,
                 crawled_doc_path, runNo, history, chunksColl, autoschema, rpc, clsVars, chkVars,
                 valVars, response, crawlVars, connVars>>

\* the document batch closes: what is waiting is sent; back to the outer loop
ExitDocumentBatch ==
  /\ ipc = "documents"
  /\ todo_items = <<>>
  /\ SendDocuments(batch)
  /\ batch' = <<>>
  /\ crawled_doc_path' = <<>>
  /\ ipc' = "files"
  /\ UNCHANGED <<logged, snapDir, dumping, gpc, crawled_doc_dict, crawled_doc_paths,
                 todo_items, runNo, history, chunksColl, autoschema, rpc, clsVars, chkVars,
                 valVars, response, crawlVars, connVars>>

\* the outer loop is through: client.close(), the script ends; the run's
\* entry of history gets the files the run loaded and the store it leaves
EndRun ==
  /\ ipc = "files"
  /\ crawled_doc_paths = {}
  /\ ipc' = "idle"
  /\ history' = [history EXCEPT ![Len(history)] =
       [@ EXCEPT !.dir = crawled_doc_dict, !.chunks = chunksColl, !.docs = docsColl,
                 !.ended = TRUE]]
  /\ UNCHANGED <<logged, failed_objects, snapDir, dumping, gpc, crawled_doc_dict,
                 crawled_doc_paths, crawled_doc_path, todo_items, batch, runNo,
                 storeVars, clsVars, chkVars, valVars, response, crawlVars, connVars>>

\* what a later crawl of the job of a file may write: for a_d.json no page,
\* the first page with each body, or both pages; for a-b_d.json, the file of
\* a further job, its one page
CrawlOutcomes(stem) ==
  IF stem = StemA
    THEN {<<>>} \cup {[q \in {PathP} |-> b] : b \in Bodies}
                \cup {[q \in {PathP, PathPChunk} |-> ShortBody]}
    ELSE {[q \in {PathP} |-> ShortBody]}

\* 1_get_docs.py has crawled a job again (results_md = d) and opens the job's
\* file for writing: the file is there and empty.  This can happen at any
\* point of a run of 2_index_docs.py.  Bounds: a behaviour holds one such
\* write, it begins after the last run but one has started, and a behaviour
\* with it holds no run of 0_reset_db.py
OpenSnapshotFile(stem, d) ==
  /\ gpc = "off"
  /\ rpc = "off"
  /\ runNo = MaxRuns - 1
  /\ d \in CrawlOutcomes(stem)
  /\ dumping' = [s \in {stem} |-> d]
  /\ gpc' = "writing"
  /\ snapDir' = [s \in DOMAIN snapDir \cup {stem} |->
                   IF s = stem THEN <<>> ELSE snapDir[s]]
  /\ UNCHANGED <<logged, failed_objects, ipc, crawled_doc_paths, crawled_doc_path,
                 crawled_doc_dict, todo_items, batch, runNo, history, storeVars,
                 clsVars, chkVars, valVars, response, crawlVars, connVars>>

\* json.dump(results_md, f) is through and the file is closed: the file holds
\* the whole mapping of the new crawl; a file a run has loaded before stays
\* in the run as it was loaded
DumpResults(stem) ==
  /\ gpc = "writing"
  /\ stem \in DOMAIN dumping
  /\ snapDir' = [snapDir EXCEPT ![stem] = dumping[stem]]
  /\ dumping' = <<>>
  /\ gpc' = "done"
  /\ UNCHANGED <<logged, failed_objects, ipc, crawled_doc_paths, crawled_doc_path,
                 crawled_doc_dict, todo_items, batch, runNo, history, storeVars,
                 clsVars, chkVars, valVars, response, crawlVars, connVars>>

\* history with the note that 0_reset_db.py was at work during the run going on
NotedReset ==
  IF RunGoingOn THEN [history EXCEPT ![Len(history)].reset = TRUE] ELSE history

\* 0_reset_db.py: client.collections.delete("Chunks").  The script has no
\* lock and can run at any point of a run of 2_index_docs.py, and a run can
\* start between any two of its calls.  Bounds: a behaviour holds one run of
\* the script, it begins after the last run but one has started, and a
\* behaviour with it holds no later crawl
DeleteChunks ==
  /\ rpc = "off"
  /\ gpc = "off"
  /\ runNo = MaxRuns - 1
  /\ chunksColl' = <<>>
  /\ existing' = existing \ {"Chunks"}
  /\ rpc' = "chunks_deleted"
  /\ history' = NotedReset
  /\ UNCHANGED <<logged, failed_objects, snapDir, dumping, gpc, ipc, crawled_doc_dict,
                 crawled_doc_paths, crawled_doc_path, todo_items, batch, runNo,
                 autoschema, docsColl, clsVars, chkVars, valVars, response, crawlVars, connVars>>

\* client.collections.delete("Documents")
DeleteDocuments ==
  /\ rpc = "chunks_deleted"
  /\ docsColl' = <<>>
  /\ existing' = existing \ {"Documents"}
  /\ rpc' = "deleted"
  /\ history' = NotedReset
  /\ UNCHANGED <<logged, failed_objects, snapDir, dumping, gpc, ipc, crawled_doc_dict,
                 crawled_doc_paths, crawled_doc_path, todo_items, batch, runNo,
                 autoschema, chunksColl, clsVars, chkVars, valVars, response, crawlVars,
                 connVars>>

\* if not client.collections.exists("Chunks"): the request for exists.  A
\* collection the store has made again for objects of a run is found, and
\* the script goes on to Documents
ExistsChunks ==
  /\ rpc = "deleted"
  /\ rpc' = IF "Chunks" \in existing THEN "chunks_created" ELSE "chunks_absent"
  /\ history' = NotedReset
  /\ UNCHANGED <<logged, failed_objects, snapDir, dumping, gpc, ipc, crawled_doc_dict,
                 crawled_doc_paths, crawled_doc_path, todo_items, batch, runNo,
                 chunksColl, docsColl, existing, autoschema, clsVars, chkVars, valVars,
                 response, crawlVars, connVars>>

\* client.collections.create("Chunks", ...) after exists answered no
CreateChunks ==
  /\ rpc = "chunks_absent"
  /\ "Chunks" \notin existing
  /\ existing' = existing \cup {"Chunks"}
  /\ rpc' = "chunks_created"
  /\ history' = NotedReset
  /\ UNCHANGED <<logged, failed_objects, snapDir, dumping, gpc, ipc, crawled_doc_dict,
                 crawled_doc_paths, crawled_doc_path, todo_items, batch, runNo,
                 autoschema, chunksColl, docsColl, clsVars, chkVars, valVars, response,
                 crawlVars, connVars>>

\* client.collections.create("Chunks", ...) when the store has made the
\* collection for objects of a run since exists answered no: the store
\* refuses the create, nothing catches the exception and the script dies
\* before it looks at Documents and without client.close()
CreateChunksRaises ==
  /\ rpc = "chunks_absent"
  /\ "Chunks" \in existing
  /\ rpc' = "aborted"
  /\ history' = NotedReset
  /\ UNCHANGED <<logged, failed_objects, snapDir, dumping, gpc, ipc, crawled_doc_dict,
                 crawled_doc_paths, crawled_doc_path, todo_items, batch, runNo,
                 chunksColl, docsColl, existing, autoschema, clsVars, chkVars, valVars,
                 response, crawlVars, connVars>>

\* if not client.collections.exists("Documents"): the request for exists.
\* When the collection is found the script closes the client and ends
ExistsDocuments ==
  /\ rpc = "chunks_created"
  /\ rpc' = IF "Documents" \in existing THEN "done" ELSE "documents_absent"
  /\ history' = NotedReset
  /\ UNCHANGED <<logged, failed_objects, snapDir, dumping, gpc, ipc, crawled_doc_dict,
                 crawled_doc_paths, crawled_doc_path, todo_items, batch, runNo,
                 chunksColl, docsColl, existing, autoschema, clsVars, chkVars, valVars,
                 response, crawlVars, connVars>>

\* client.collections.create("Documents", ...) after exists answered no;
\* client.close(), the script ends
CreateDocuments ==
  /\ rpc = "documents_absent"
  /\ "Documents" \notin existing
  /\ existing' = existing \cup {"Documents"}
  /\ rpc' = "done"
  /\ history' = NotedReset
  /\ UNCHANGED <<logged, failed_objects, snapDir, dumping, gpc, ipc, crawled_doc_dict,
                 crawled_doc_paths, crawled_doc_path, todo_items, batch, runNo,
                 autoschema, chunksColl, docsColl, clsVars, chkVars, valVars, response,
                 crawlVars, connVars>>

\* client.collections.create("Documents", ...) when the store has made the
\* collection since exists answered no: the script dies without client.close()
CreateDocumentsRaises ==
  /\ rpc = "documents_absent"
  /\ "Documents" \in existing
  /\ rpc' = "aborted"
  /\ history' = NotedReset
  /\ UNCHANGED <<logged, failed_objects, snapDir, dumping, gpc, ipc, crawled_doc_dict,
                 crawled_doc_paths, crawled_doc_path, todo_items, batch, runNo,
                 chunksColl, docsColl, existing, autoschema, clsVars, chkVars, valVars,
                 response, crawlVars, connVars>>

NextIndex ==
  \/ StartRun("none")
  \/ ListDirectory
  \/ \E stem \in Stems : NextFile(stem)
  \/ \E stem \in Stems : NextFileRaises(stem)
  \/ AddChunks
  \/ ExitChunkBatch
  \/ AddDocument
  \/ ExitDocumentBatch
  \/ EndRun
  \/ \E stem \in Stems : \E d \in CrawlOutcomes(stem) : OpenSnapshotFile(stem, d)
  \/ \E stem \in Stems : DumpResults(stem)
  \/ DeleteChunks
  \/ DeleteDocuments
  \/ ExistsChunks
  \/ CreateChunks
  \/ CreateChunksRaises
  \/ ExistsDocuments
  \/ CreateDocuments
  \/ CreateDocumentsRaises

SpecIndex == InitIndex /\ [][NextIndex]_vars

(***************************************************************************)
(* The indexing run when a call raises or the store rejects objects.  The  *)
(* try block of the chunk loop covers chunker.chunk and batch.add_object;  *)
(* the document loop has no try block.  A sent batch answers per object:   *)
(* the store keeps an object or rejects it, and the client then lists it   *)
(* in failed_objects, which the script never reads.                        *)
(***************************************************************************)
\* the number of raised exceptions and rejected objects a behaviour may hold
MaxFaults == 2

\* the exceptions raised and objects rejected so far
FaultCount ==
  Len(logged) + Len(failed_objects)
    + Cardinality({k \in 1..Len(history) : history[k].aborted})

\* the elements of a sequence at the positions of S, in order
Pick(seq, S) == [k \in 1..Cardinality(S) |-> seq[SortedSeq(S)[k]]]

\* one page of the chunk loop in which chunker.chunk raises (added = 0) or the
\* add_object after added chunks raises: the except prints "Error ingesting"
AddChunksRaises(added) ==
  /\ ipc = "chunks"
  /\ todo_items # <<>>
  /\ FaultCount < MaxFaults
  /\ LET stem == crawled_doc_path[1]
         path == Head(todo_items)
         objs == ChunkObjects(VdbName(stem), path, crawled_doc_dict[stem][path])
     IN  /\ added <= Len(objs)
         /\ added = Len(objs) => added = 0
         /\ batch' = batch \o SubSeq(objs, 1, added)
         /\ logged' = Append(logged, [file |-> stem, path |-> path])
  /\ todo_items' = Tail(todo_items)
  /\ UNCHANGED <<failed_objects, snapDir, dumping, gpc, crawled_doc_dict, ipc, crawled_doc_paths,
                 crawled_doc_path, runNo, history, storeVars, clsVars, chkVars,
                 valVars, response, crawlVars, connVars>>

\* one page of the document loop in which batch.add_object raises: nothing
\* catches it, the batch context exits (what is waiting is sent, or is lost
\* with the failing client) and the script dies
AddDocumentRaises(sent) ==
  /\ ipc = "documents"
  /\ todo_items # <<>>
  /\ FaultCount < MaxFaults
  /\ docsColl' = IF sent THEN UpsertAll(docsColl, batch) ELSE docsColl
  /\ batch' = <<>>
  /\ ipc' = "aborted"
  /\ history' = [history EXCEPT ![Len(history)] =
       [@ EXCEPT !.dir = crawled_doc_dict, !.chunks = chunksColl, !.docs = docsColl',
                 !.ended = TRUE, !.aborted = TRUE]]
  /\ UNCHANGED <<logged, failed_objects, snapDir, dumping, gpc, crawled_doc_dict,
                 crawled_doc_paths, crawled_doc_path, todo_items, runNo, chunksColl,
                 existing, autoschema, rpc, clsVars, chkVars, valVars, response, crawlVars,
                 connVars>>

\* the chunk batch closes and the store rejects the objects at positions S
ExitChunkBatchRejecting(S) ==
  /\ ipc = "chunks"
  /\ todo_items = <<>>
  /\ S # {}
  /\ S \subseteq 1..Len(batch)
  /\ FaultCount + Cardinality(S) <= MaxFaults
  /\ chunksColl' = UpsertAll(chunksColl, Pick(batch, (1..Len(batch)) \ S))
  /\ failed_objects' = failed_objects \o Failed("Chunks", Pick(batch, S))
  /\ batch' = <<>>
  /\ todo_items' = Items(crawled_doc_dict[crawled_doc_path[1]])
  /\ ipc' = "documents"
  /\ UNCHANGED <<logged, snapDir, dumping, gpc, crawled_doc_dict, crawled_doc_paths,
                 crawled_doc_path, runNo,
                 history, docsColl, existing, autoschema, rpc, clsVars, chkVars, valVars, response,
                 crawlVars, connVars>>

\* the document batch closes and the store rejects the objects at positions S
ExitDocumentBatchRejecting(S) ==
  /\ ipc = "documents"
  /\ todo_items = <<>>
  /\ S # {}
  /\ S \subseteq 1..Len(batch)
  /\ FaultCount + Cardinality(S) <= MaxFaults
  /\ docsColl' = UpsertAll(docsColl, Pick(batch, (1..Len(batch)) \ S))
  /\ failed_objects' = failed_objects \o Failed("Documents", Pick(batch, S))
  /\ batch' = <<>>
  /\ crawled_doc_path' = <<>>
  /\ ipc' = "files"
  /\ UNCHANGED <<logged, snapDir, dumping, gpc, crawled_doc_dict, crawled_doc_paths, todo_items,
                 runNo, history,
                 chunksColl, existing, autoschema, rpc, clsVars, chkVars, valVars, response, crawlVars,
                 connVars>>

\* the positions of a batch of the bounded snapshots
BatchPositions == 1..(2 * Len(Paths))

NextIndexFaults ==
  \/ StartRun("none")
  \/ ListDirectory
  \/ \E stem \in Stems : NextFile(stem)
  \/ AddChunks
  \/ \E added \in 0..1 : AddChunksRaises(added)
  \/ ExitChunkBatch
  \/ \E S \in SUBSET BatchPositions : ExitChunkBatchRejecting(S)
  \/ AddDocument
  \/ \E sent \in BOOLEAN : AddDocumentRaises(sent)
  \/ ExitDocumentBatch
  \/ \E S \in SUBSET BatchPositions : ExitDocumentBatchRejecting(S)
  \/ EndRun

SpecIndexFaults == InitIndex /\ [][NextIndexFaults]_vars

(***************************************************************************)
(* The indexing run when its start fails.  connect_to_local is the first   *)
(* call of the script that reaches outside the process; the directory is   *)
(* read and objects are sent only after it has returned.                   *)
(***************************************************************************)
\* the script starts and weaviate.connect_to_local raises: the store does not
\* answer, or COHERE_API_KEY is not set and the header value is None.  This
\* is the first call of the script after the chunker is made: nothing catches
\* the exception, the traceback names the cause, and the script dies before
\* it reads the directory or sends an object
StartRunRaises(condition) ==
  /\ ipc \in {"idle", "aborted"}
  /\ runNo < MaxRuns
  /\ FaultCount < MaxFaults
  /\ ConnectToLocal(condition) = "raises"
  /\ runNo' = runNo + 1
  /\ crawled_doc_paths' = {}
  /\ crawled_doc_path' = <<>>
  /\ crawled_doc_dict' = <<>>
  /\ todo_items' = <<>>
  /\ batch' = <<>>
  /\ ipc' = "aborted"
  /\ history' = Append(history,
       [dir |-> <<>>, before_chunks |-> chunksColl, before_docs |-> docsColl,
        chunks |-> chunksColl, docs |-> docsColl, ended |-> TRUE, aborted |-> TRUE,
        reset |-> rpc \notin {"off", "done", "aborted"}, condition |-> condition])
  /\ UNCHANGED <<logged, failed_objects, snapDir, dumping, gpc, storeVars, clsVars,
                 chkVars, valVars, response, crawlVars, connVars>>

NextIndexStartup ==
  \/ \E condition \in Conditions : StartRun(condition)
  \/ \E condition \in Conditions : StartRunRaises(condition)
  \/ ListDirectory
  \/ \E stem \in Stems : NextFile(stem)
  \/ AddChunks
  \/ ExitChunkBatch
  \/ AddDocument
  \/ ExitDocumentBatch
  \/ EndRun

SpecIndexStartup == InitIndex /\ [][NextIndexStartup]_vars

(***************************************************************************)
(* Two processes run 2_index_docs.py over the same directory at once.  Each*)
(* has its own loop position and its own open batch; the store is shared   *)
(* and takes a batch at a time.  The variables of the indexer hold one     *)
(* value per process here, and history lists the batches the store took.   *)
(***************************************************************************)
Writers == {"w1", "w2"}

InitWriters ==
  /\ snapDir \in DirInputs
  /\ dumping = <<>>
  /\ gpc = "off"
  /\ chunksColl = <<>>
  /\ docsColl = <<>>
  /\ existing = {"Chunks", "Documents"}
  /\ autoschema = TRUE
  /\ rpc = "off"
  /\ ipc = [w \in Writers |-> "files"]
  /\ crawled_doc_paths = [w \in Writers |-> DOMAIN snapDir]
  /\ crawled_doc_path = [w \in Writers |-> <<>>]
  /\ crawled_doc_dict = <<>>
  /\ todo_items = [w \in Writers |-> <<>>]
  /\ batch = [w \in Writers |-> <<>>]
  /\ runNo = 0
  /\ history = <<>>
  /\ logged = <<>>
  /\ failed_objects = <<>>
  /\ ClassifierIdle
  /\ ChunkerIdle
  /\ ValidatorIdle
  /\ RetrievalIdle
  /\ CrawlerIdle
  /\ ConnectionsIdle

\* the batch of a process goes to the store
Sent(w, collection, objs) ==
  IF objs = <<>> THEN history
  ELSE Append(history, [writer |-> w, collection |-> collection,
                        file |-> crawled_doc_path[w][1]])

\* the outer loop of process w takes a file and opens the chunk batch
WriterNextFile(w, stem) ==
  /\ ipc[w] = "files"
  /\ stem \in crawled_doc_paths[w]
  /\ crawled_doc_paths' = [crawled_doc_paths EXCEPT ![w] = @ \ {stem}]
  /\ crawled_doc_path' = [crawled_doc_path EXCEPT ![w] = <<stem>>]
  /\ todo_items' = [todo_items EXCEPT ![w] = Items(snapDir[stem])]
  /\ batch' = [batch EXCEPT ![w] = <<>>]
  /\ ipc' = [ipc EXCEPT ![w] = "chunks"]
  /\ UNCHANGED <<logged, failed_objects, snapDir, dumping, gpc, crawled_doc_dict, runNo, history,
                 storeVars,
                 clsVars, chkVars, valVars, response, crawlVars, connVars>>

\* one page of the chunk loop of process w
WriterAddChunks(w) ==
  /\ ipc[w] = "chunks"
  /\ todo_items[w] # <<>>
  /\ LET stem == crawled_doc_path[w][1]
         path == Head(todo_items[w])
         added == batch[w] \o ChunkObjects(VdbName(stem), path, snapDir[stem][path])
     IN  /\ chunksColl' = UpsertAll(chunksColl, FullBatches(added))
         /\ history' = Sent(w, "Chunks", FullBatches(added))
         /\ batch' = [batch EXCEPT ![w] = AfterFullBatches(added)]
  /\ todo_items' = [todo_items EXCEPT ![w] = Tail(@)]
  /\ UNCHANGED <<logged, failed_objects, snapDir, dumping, gpc, crawled_doc_dict, runNo, ipc,
                 crawled_doc_paths,
                 crawled_doc_path, docsColl, existing, autoschema, rpc,
                 clsVars, chkVars, valVars, response, crawlVars, connVars>>

\* process w leaves the chunk batch: the waiting objects are sent
WriterExitChunkBatch(w) ==
  /\ ipc[w] = "chunks"
  /\ todo_items[w] = <<>>
  /\ chunksColl' = UpsertAll(chunksColl, batch[w])
  /\ history' = Sent(w, "Chunks", batch[w])
  /\ batch' = [batch EXCEPT ![w] = <<>>]
  /\ todo_items' = [todo_items EXCEPT ![w] = Items(snapDir[crawled_doc_path[w][1]])]
  /\ ipc' = [ipc EXCEPT ![w] = "documents"]
  /\ UNCHANGED <<logged, failed_objects, snapDir, dumping, gpc, crawled_doc_dict, runNo,
                 crawled_doc_paths,
                 crawled_doc_path, docsColl, existing, autoschema, rpc,
                 clsVars, chkVars, valVars, response, crawlVars, connVars>>

\* one page of the document loop of process w
WriterAddDocument(w) ==
  /\ ipc[w] = "documents"
  /\ todo_items[w] # <<>>
  /\ LET stem == crawled_doc_path[w][1]
         path == Head(todo_items[w])
         added == Append(batch[w], DocumentObject(VdbName(stem), path, snapDir[stem][path]))
     IN  /\ docsColl' = UpsertAll(docsColl, FullBatches(added))
         /\ history' = Sent(w, "Documents", FullBatches(added))
         /\ batch' = [batch EXCEPT ![w] = AfterFullBatches(added)]
  /\ todo_items' = [todo_items EXCEPT ![w] = Tail(@)]
  /\ UNCHANGED <<logged, failed_objects, snapDir, dumping, gpc, crawled_doc_dict, runNo, ipc,
                 crawled_doc_paths,
                 crawled_doc_path, chunksColl, existing, autoschema, rpc,
                 clsVars, chkVars, valVars, response, crawlVars, connVars>>

\* process w leaves the document batch and goes on to the next file
WriterExitDocumentBatch(w) ==
  /\ ipc[w] = "documents"
  /\ todo_items[w] = <<>>
  /\ docsColl' = UpsertAll(docsColl, batch[w])
  /\ history' = Sent(w, "Documents", batch[w])
  /\ batch' = [batch EXCEPT ![w] = <<>>]
  /\ crawled_doc_path' = [crawled_doc_path EXCEPT ![w] = <<>>]
  /\ ipc' = [ipc EXCEPT ![w] = "files"]
  /\ UNCHANGED <<logged, failed_objects, snapDir, dumping, gpc, crawled_doc_dict, runNo,
                 crawled_doc_paths,
                 todo_items, chunksColl, existing, autoschema, rpc,
                 clsVars, chkVars, valVars, response, crawlVars, connVars>>

\* process w has no file left: client.close() and the script ends
WriterEnd(w) ==
  /\ ipc[w] = "files"
  /\ crawled_doc_paths[w] = {}
  /\ ipc' = [ipc EXCEPT ![w] = "done"]
  /\ UNCHANGED <<logged, failed_objects, snapDir, dumping, gpc, crawled_doc_dict, runNo,
                 crawled_doc_paths,
                 crawled_doc_path, todo_items, batch, history, storeVars,
                 clsVars, chkVars, valVars, response, crawlVars, connVars>>

NextWriters ==
  \E w \in Writers :
     \/ \E stem \in Stems : WriterNextFile(w, stem)
     \/ WriterAddChunks(w)
     \/ WriterExitChunkBatch(w)
     \/ WriterAddDocument(w)
     \/ WriterExitDocumentBatch(w)
     \/ WriterEnd(w)

SpecWriters == InitWriters /\ [][NextWriters]_vars

(***************************************************************************)
(* The identifiers of the objects of two pages.  todo_items holds the two  *)
(* pages, each with the stem of its file, its key in the file and a chunk  *)
(* number; batch holds what the two loops derive for them.                 *)
(***************************************************************************)
\* keys of a snapshot file: URLs of pages, and a key that is no URL,
\* "b-https://d/p"
KeyNoUrl == <<"b", "-">> \o PathP
SnapshotKeys == {PathP, PathPChunk, PathPChunk \o <<"-", "c", "h", "u", "n", "k", "-", "0">>, KeyNoUrl}

\* the chunk numbers looked at
ChunkNumbers == {0, 1, 11}

PageInputs == [stem : Stems, path : SnapshotKeys, chunk_no : ChunkNumbers]

InitIdentify ==
  /\ todo_items \in {<<p, q>> : p \in PageInputs, q \in PageInputs}
  /\ batch = <<>>
  /\ snapDir = <<>>
  /\ dumping = <<>>
  /\ gpc = "off"
  /\ ipc = "identify"
  /\ crawled_doc_paths = {}
  /\ crawled_doc_path = <<>>
  /\ crawled_doc_dict = <<>>
  /\ runNo = 0
  /\ history = <<>>
  /\ logged = <<>>
  /\ failed_objects = <<>>
  /\ StoreIdle
  /\ ClassifierIdle
  /\ ChunkerIdle
  /\ ValidatorIdle
  /\ RetrievalIdle
  /\ CrawlerIdle
  /\ ConnectionsIdle

\* the uuid arguments of the two add_object calls for each of the pages
DeriveIdentifiers ==
  /\ ipc = "identify"
  /\ batch' = [k \in 1..Len(todo_items) |->
                 LET vdb_name == VdbName(todo_items[k].stem)
                     path == todo_items[k].path
                     i == todo_items[k].chunk_no
                 IN  [product |-> vdb_name, path |-> path, chunk_no |-> i,
                      chunk_uuid |-> GenerateUuid5(<<"C", "h", "u", "n", "k", "s">>,
                                                   ChunkNamespace(vdb_name, path, i)),
                      document_uuid |->
                        GenerateUuid5(<<"D", "o", "c", "u", "m", "e", "n", "t", "s">>,
                                      DocumentNamespace(vdb_name, path))]]
  /\ ipc' = "identified"
  /\ UNCHANGED <<snapDir, dumping, gpc, crawled_doc_dict, crawled_doc_paths, crawled_doc_path,
                 todo_items, runNo,
                 history, logged, failed_objects, storeVars, valVars, clsVars, chkVars,
                 response, crawlVars, connVars>>

NextIdentify == DeriveIdentifiers

SpecIdentify == InitIdentify /\ [][NextIdentify]_vars

(***************************************************************************)
(* The repair pass followed by an indexing run: 15_supplementary_crawl.py  *)
(* runs over the raw directory, then 2_index_docs.py runs on an empty      *)
(* store.  The files "f1" and "f2" are a_d.json and a-b_d.json, the URL    *)
(* numbered u is the page https://d/p/u.                                   *)
(***************************************************************************)
FileStem(f) == IF f = "f1" THEN StemA ELSE StemAB
UrlPath(u) == PathP \o <<"/">> \o StrOfNat(u)

\* the word tokens of a text: its runs of characters other than the space
RECURSIVE Words(_)
Words(s) ==
  IF s = <<>> THEN <<>>
  ELSE IF Head(s) = " " THEN Words(Tail(s))
  ELSE LET n == CHOOSE k \in 1..Len(s) :
                  /\ \A i \in 1..k : s[i] # " "
                  /\ k = Len(s) \/ s[k + 1] = " "
       IN  <<SubSeq(s, 1, n)>> \o Words(SubSeq(s, n + 1, Len(s)))

\* 2_index_docs.py: crawled_docs_dir = Path(CRAWLED_DOCS_DIR), the directory
\* 15_supplementary_crawl.py takes its input files from
crawled_docs_dir == rawDir

\* 2_index_docs.py after the repair pass has ended: connect, glob the
\* directory, open the collections
IndexStart ==
  /\ vpc = "done"
  /\ ipc = "off"
  /\ crawled_doc_paths' = DOMAIN crawled_docs_dir
  /\ ipc' = "files"
  /\ UNCHANGED <<snapDir, dumping, gpc, crawled_doc_dict, crawled_doc_path, todo_items, batch,
                 runNo, history,
                 logged, failed_objects, storeVars, valVars, clsVars, chkVars,
                 response, crawlVars, connVars>>

\* the outer loop takes a file, reads it and opens the chunk batch
IndexFile(f) ==
  /\ ipc = "files"
  /\ f \in crawled_doc_paths
  /\ crawled_doc_paths' = crawled_doc_paths \ {f}
  /\ crawled_doc_path' = <<f>>
  /\ todo_items' = SortedSeq(DOMAIN crawled_docs_dir[f])
  /\ batch' = <<>>
  /\ ipc' = "chunks"
  /\ UNCHANGED <<snapDir, dumping, gpc, crawled_doc_dict, runNo, history, logged, failed_objects,
                 storeVars,
                 valVars, clsVars, chkVars, response, crawlVars, connVars>>

\* one page of the chunk loop: chunk the text, add every chunk to the batch
IndexPageChunks ==
  /\ ipc = "chunks"
  /\ todo_items # <<>>
  /\ LET f == crawled_doc_path[1]
         u == Head(todo_items)
         added == batch \o ChunkObjects(VdbName(FileStem(f)), UrlPath(u),
                                        Words(crawled_docs_dir[f][u]))
     IN  /\ chunksColl' = UpsertAll(chunksColl, FullBatches(added))
         /\ batch' = AfterFullBatches(added)
  /\ todo_items' = Tail(todo_items)
  /\ UNCHANGED <<snapDir, dumping, gpc, crawled_doc_dict, ipc, crawled_doc_paths, crawled_doc_path,
                 runNo, history,
                 logged, failed_objects, docsColl, existing, autoschema, rpc, valVars, clsVars, chkVars,
                 response, crawlVars, connVars>>

\* the chunk batch closes: what is waiting is sent; the document batch opens
IndexChunkBatchExit ==
  /\ ipc = "chunks"
  /\ todo_items = <<>>
  /\ chunksColl' = UpsertAll(chunksColl, batch)
  /\ batch' = <<>>
  /\ todo_items' = SortedSeq(DOMAIN crawled_docs_dir[crawled_doc_path[1]])
  /\ ipc' = "documents"
  /\ UNCHANGED <<snapDir, dumping, gpc, crawled_doc_dict, crawled_doc_paths, crawled_doc_path,
                 runNo, history,
                 logged, failed_objects, docsColl, existing, autoschema, rpc, valVars, clsVars, chkVars,
                 response, crawlVars, connVars>>

\* one page of the document loop: add the document to the batch
IndexPageDocument ==
  /\ ipc = "documents"
  /\ todo_items # <<>>
  /\ LET f == crawled_doc_path[1]
         u == Head(todo_items)
         added == Append(batch, DocumentObject(VdbName(FileStem(f)), UrlPath(u),
                                               crawled_docs_dir[f][u]))
     IN  /\ docsColl' = UpsertAll(docsColl, FullBatches(added))
         /\ batch' = AfterFullBatches(added)
  /\ todo_items' = Tail(todo_items)
  /\ UNCHANGED <<snapDir, dumping, gpc, crawled_doc_dict, ipc, crawled_doc_paths, crawled_doc_path,
                 runNo, history,
                 logged, failed_objects, chunksColl, existing, autoschema, rpc, valVars, clsVars, chkVars,
                 response, crawlVars, connVars>>

\* the document batch closes: what is waiting is sent; back to the outer loop
IndexDocumentBatchExit ==
  /\ ipc = "documents"
  /\ todo_items = <<>>
  /\ docsColl' = UpsertAll(docsColl, batch)
  /\ batch' = <<>>
  /\ crawled_doc_path' = <<>>
  /\ ipc' = "files"
  /\ UNCHANGED <<snapDir, dumping, gpc, crawled_doc_dict, crawled_doc_paths, todo_items, runNo,
                 history, logged,
                 failed_objects, chunksColl, existing, autoschema, rpc, valVars, clsVars, chkVars, response,
                 crawlVars, connVars>>

\* the outer loop is through: client.close(), the script ends
IndexEnd ==
  /\ ipc = "files"
  /\ crawled_doc_paths = {}
  /\ ipc' = "done"
  /\ UNCHANGED <<snapDir, dumping, gpc, crawled_doc_dict, crawled_doc_paths, crawled_doc_path,
                 todo_items, batch,
                 runNo, history, logged, failed_objects, storeVars, valVars,
                 clsVars, chkVars, response, crawlVars, connVars>>

NextRepairThenIndex ==
  \/ NextValidate
  \/ IndexStart
  \/ \E f \in FileNames : IndexFile(f)
  \/ IndexPageChunks
  \/ IndexChunkBatchExit
  \/ IndexPageDocument
  \/ IndexDocumentBatchExit
  \/ IndexEnd

SpecRepairThenIndex == InitValidate /\ [][NextRepairThenIndex]_vars

(***************************************************************************)
(* Retrieval: 40_build_mcp.py (call_tool and its three tools),             *)
(* serve_mcp.py (the generic search functions and the document resource)   *)
(* and 30_inspect_db.py (its functions and the loops that call them).      *)
(* An optional argument is <<>> when omitted (None) and <<v>> when given.  *)
(* The ranking of a hybrid search is the store's: a search returns any     *)
(* objects that pass the filter, at most limit of them.  No tool changes   *)
(* the store; response is what the call in progress answered.                *)
(***************************************************************************)
\* the store after a whole indexing run over directory dir, from collections c
RECURSIVE ChunksAfterRun(_, _, _)
ChunksAfterRun(c, dir, pages) ==
  IF pages = <<>> THEN c
  ELSE LET stem == Head(pages)[1]
           path == Head(pages)[2]
       IN  ChunksAfterRun(
             UpsertAll(c, ChunkObjects(VdbName(stem), path, dir[stem][path])),
             dir, Tail(pages))
RECURSIVE DocsAfterRun(_, _, _)
DocsAfterRun(c, dir, pages) ==
  IF pages = <<>> THEN c
  ELSE LET stem == Head(pages)[1]
           path == Head(pages)[2]
       IN  DocsAfterRun(
             Upsert(c, DocumentObject(VdbName(stem), path, dir[stem][path])),
             dir, Tail(pages))

\* the pages of a directory, file by file
PagesOf(dir) ==
  LET of(stem) == IF stem \in DOMAIN dir
                    THEN [i \in 1..Len(Items(dir[stem])) |-> <<stem, Items(dir[stem])[i]>>]
                    ELSE <<>>
  IN  of(StemA) \o of(StemAB)

\* the default of limit in 40_build_mcp.py
DefaultLimit == 10
\* the default of limit in serve_mcp.py and 30_inspect_db.py
DefaultLimitServe == 5
\* the number of characters of a body that search_documents returns
PreviewLength == 500

\* the product arguments of a search: omitted, "", "a", "a-b", "zz"
ProductArgs == {<<>>, <<<<>>>>, <<<<"a">>>>, <<<<"a", "-", "b">>>>, <<<<"z", "z">>>>}
\* the limit arguments of a search: omitted, 1
LimitArgs == {<<>>, <<1>>}
\* the path arguments of a fetch: the two pages and a URL no page has
PathArgs == {PathP, PathPChunk, PathP \o <<"/", "q">>}

\* Filter.by_property("product").equal(product) if product else None
ProductFilter(product) ==
  IF product # <<>> /\ Len(product[1]) > 0 THEN <<product[1]>> ELSE <<>>

\* the objects of a collection that pass the product filter
Matching(coll, filter_obj) ==
  SelectSeq(coll, LAMBDA o : filter_obj = <<>> \/ o.product = filter_obj[1])

\* what query.hybrid may return: lists of up to limit objects that pass the filter
HybridResponses(coll, filter_obj, limit) ==
  LET m == Matching(coll, filter_obj)
  IN  {[k \in 1..Len(SortedSeq(S)) |-> m[SortedSeq(S)[k]]] :
         S \in {T \in SUBSET (1..Len(m)) : Cardinality(T) <= limit}}

\* a lookup that also takes a path that begins with the argument (a variant of
\* FetchResponses)
FetchResponsesByPrefix(coll, path) ==
  LET hits == {j \in 1..Len(coll) :
                 /\ Len(coll[j].path) >= Len(path)
                 /\ SubSeq(coll[j].path, 1, Len(path)) = path}
  IN  IF hits = {} THEN {<<>>} ELSE {<<coll[i]>> : i \in hits}

\* what query.fetch_objects(filters=path equal, limit=1) may return
FetchResponses(coll, path) ==
  IF \A i \in 1..Len(coll) : coll[i].path # path THEN {<<>>}
  ELSE {<<coll[i]>> : i \in {j \in 1..Len(coll) : coll[j].path = path}}

\* o.properties of a Chunks object and of a Documents object
ChunkProperties(o) ==
  [product |-> o.product, chunk |-> o.chunk, chunk_no |-> o.chunk_no, path |-> o.path]
DocumentProperties(o) == [product |-> o.product, body |-> o.body, path |-> o.path]

\* the string of a body: its words with one space between two
JoinWords(body) ==
  [i \in 1..(IF Len(body) = 0 THEN 0 ELSE 2 * Len(body) - 1) |->
     IF i % 2 = 1 THEN body[(i + 1) \div 2] ELSE " "]

\* result["body"][:500] + "..."
Preview(str) == SubSeq(str, 1, Min(PreviewLength, Len(str))) \o <<".", ".", ".">>

\* the properties of a found document as search_documents returns them
DocumentPreview(o) ==
  [product |-> o.product, body |-> Preview(JoinWords(o.body)), path |-> o.path]

\* the stores the tools may find: empty after 0_reset_db.py, or as an indexing
\* run over a directory leaves it
InitRetrieve ==
  /\ \/ chunksColl = <<>> /\ docsColl = <<>>
     \/ \E dir \in DirInputs :
          /\ chunksColl = ChunksAfterRun(<<>>, dir, PagesOf(dir))
          /\ docsColl = DocsAfterRun(<<>>, dir, PagesOf(dir))
  /\ existing = {"Chunks", "Documents"}
  /\ autoschema = TRUE
  /\ rpc = "off"
  /\ response = <<>>
  /\ ClassifierIdle
  /\ ChunkerIdle
  /\ ValidatorIdle
  /\ IndexerIdle
  /\ CrawlerIdle
  /\ ConnectionsIdle

\* 40_build_mcp.py: call_tool("search_chunks", arguments)
BuildSearchChunks(product, limit) ==
  /\ response = <<>>
  /\ \E objs \in HybridResponses(chunksColl, ProductFilter(product),
                                 IF limit = <<>> THEN DefaultLimit ELSE limit[1]) :
       response' = <<[impl |-> "40_build_mcp", tool |-> "search_chunks",
                      product |-> product, path |-> <<>>, raised |-> FALSE,
                      found |-> TRUE,
                      results |-> [k \in 1..Len(objs) |-> ChunkProperties(objs[k])]]>>
  /\ UNCHANGED <<storeVars, clsVars, chkVars, valVars, idxVars, crawlVars,
                 connVars>>

\* search_documents that also empties the bodies of the found objects in the
\* collection (a variant of BuildSearchDocuments)
BuildSearchDocumentsInPlace(product, limit) ==
  /\ response = <<>>
  /\ \E objs \in HybridResponses(docsColl, ProductFilter(product),
                                 IF limit = <<>> THEN DefaultLimit ELSE limit[1]) :
       /\ response' = <<[impl |-> "40_build_mcp", tool |-> "search_documents",
                         product |-> product, path |-> <<>>, raised |-> FALSE,
                         found |-> TRUE,
                         results |-> [k \in 1..Len(objs) |-> DocumentPreview(objs[k])]]>>
       /\ docsColl' = [i \in 1..Len(docsColl) |->
                         IF \E k \in 1..Len(objs) : objs[k] = docsColl[i]
                           THEN [docsColl[i] EXCEPT !.body = <<>>]
                           ELSE docsColl[i]]
  /\ UNCHANGED <<chunksColl, existing, autoschema, rpc, clsVars, chkVars, valVars, idxVars, crawlVars,
                 connVars>>

\* 40_build_mcp.py: call_tool("search_documents", arguments)
BuildSearchDocuments(product, limit) ==
  /\ response = <<>>
  /\ \E objs \in HybridResponses(docsColl, ProductFilter(product),
                                 IF limit = <<>> THEN DefaultLimit ELSE limit[1]) :
       response' = <<[impl |-> "40_build_mcp", tool |-> "search_documents",
                      product |-> product, path |-> <<>>, raised |-> FALSE,
                      found |-> TRUE,
                      results |-> [k \in 1..Len(objs) |-> DocumentPreview(objs[k])]]>>
  /\ UNCHANGED <<storeVars, clsVars, chkVars, valVars, idxVars, crawlVars,
                 connVars>>

\* 40_build_mcp.py: call_tool("fetch_document", arguments): the JSON text of the
\* document's properties, or of {"error": "Document not found at path: ..."}
BuildFetchDocument(path) ==
  /\ response = <<>>
  /\ \E objs \in FetchResponses(docsColl, path) :
       response' = <<[impl |-> "40_build_mcp", tool |-> "fetch_document",
                      product |-> <<>>, path |-> <<path>>, raised |-> FALSE,
                      found |-> objs # <<>>,
                      results |-> IF objs = <<>>
                                    THEN <<[error |-> "Document not found at path", path |-> path]>>
                                    ELSE <<DocumentProperties(objs[1])>>]>>
  /\ UNCHANGED <<storeVars, clsVars, chkVars, valVars, idxVars, crawlVars,
                 connVars>>

\* 40_build_mcp.py: the names call_tool dispatches on
ToolNames == {"search_chunks", "search_documents", "fetch_document"}

\* names a caller may send that are none of the three tools
UnknownToolNames == {"delete_document", "search_chunk", ""}

\* 40_build_mcp.py: the message of the ValueError, f"Unknown tool: {name}"
UnknownToolMessage(name) == <<"Unknown tool: ", name>>

\* (a variant of BuildUnknownTool) an unknown name is served as a document
\* search without a product instead of being refused
BuildUnknownToolAsSearch(name) ==
  /\ response = <<>>
  /\ \E found \in HybridResponses(docsColl, ProductFilter(<<>>), DefaultLimit) :
       response' = <<[impl |-> "40_build_mcp", tool |-> name, product |-> <<>>,
                      path |-> <<>>, raised |-> FALSE, found |-> FALSE,
                      results |-> [k \in 1..Len(found) |-> DocumentPreview(found[k])],
                      queried |-> TRUE, error |-> <<>>]>>
  /\ UNCHANGED <<storeVars, clsVars, chkVars, valVars, idxVars, crawlVars,
                 connVars>>

\* 40_build_mcp.py: call_tool with a name that is none of the three tools:
\* the else branch raises before any of the three functions is called
BuildUnknownTool(name) ==
  /\ response = <<>>
  /\ response' = <<[impl |-> "40_build_mcp", tool |-> name, product |-> <<>>,
                    path |-> <<>>, raised |-> TRUE, found |-> FALSE, results |-> <<>>,
                    queried |-> FALSE, error |-> UnknownToolMessage(name)]>>
  /\ UNCHANGED <<storeVars, clsVars, chkVars, valVars, idxVars, crawlVars,
                 connVars>>

\* serve_mcp.py: search_chunks_generic(query, limit, product)
ServeSearchChunks(product, limit) ==
  /\ response = <<>>
  /\ \E objs \in HybridResponses(chunksColl, ProductFilter(product),
                                 IF limit = <<>> THEN DefaultLimitServe ELSE limit[1]) :
       response' = <<[impl |-> "serve_mcp", tool |-> "search_chunks",
                      product |-> product, path |-> <<>>, raised |-> FALSE,
                      found |-> TRUE,
                      results |-> [k \in 1..Len(objs) |-> ChunkProperties(objs[k])]]>>
  /\ UNCHANGED <<storeVars, clsVars, chkVars, valVars, idxVars, crawlVars,
                 connVars>>

\* serve_mcp.py: search_documents_generic(query, limit, product)
ServeSearchDocuments(product, limit) ==
  /\ response = <<>>
  /\ \E objs \in HybridResponses(docsColl, ProductFilter(product),
                                 IF limit = <<>> THEN DefaultLimitServe ELSE limit[1]) :
       response' = <<[impl |-> "serve_mcp", tool |-> "search_documents",
                      product |-> product, path |-> <<>>, raised |-> FALSE,
                      found |-> TRUE,
                      results |-> [k \in 1..Len(objs) |-> DocumentPreview(objs[k])]]>>
  /\ UNCHANGED <<storeVars, clsVars, chkVars, valVars, idxVars, crawlVars,
                 connVars>>

\* serve_mcp.py: fetch_document_resource_generic(url): the page as text, or the
\* text "Error: Document not found at path: ..."
ServeFetchDocument(url) ==
  /\ response = <<>>
  /\ \E objs \in FetchResponses(docsColl, url) :
       response' = <<[impl |-> "serve_mcp", tool |-> "fetch_document",
                      product |-> <<>>, path |-> <<url>>, raised |-> FALSE,
                      found |-> objs # <<>>,
                      results |-> IF objs = <<>>
                                    THEN <<[error |-> "Error: Document not found at path", path |-> url]>>
                                    ELSE <<DocumentProperties(objs[1])>>]>>
  /\ UNCHANGED <<storeVars, clsVars, chkVars, valVars, idxVars, crawlVars,
                 connVars>>

\* 30_inspect_db.py: search_chunks(query, product, limit)
InspectSearchChunks(product, limit) ==
  /\ response = <<>>
  /\ \E objs \in HybridResponses(chunksColl, ProductFilter(product),
                                 IF limit = <<>> THEN DefaultLimitServe ELSE limit[1]) :
       response' = <<[impl |-> "30_inspect_db", tool |-> "search_chunks",
                      product |-> product, path |-> <<>>, raised |-> FALSE,
                      found |-> TRUE,
                      results |-> [k \in 1..Len(objs) |-> ChunkProperties(objs[k])]]>>
  /\ UNCHANGED <<storeVars, clsVars, chkVars, valVars, idxVars, crawlVars,
                 connVars>>

\* 30_inspect_db.py: search_documents(query, product, limit)
InspectSearchDocuments(product, limit) ==
  /\ response = <<>>
  /\ \E objs \in HybridResponses(docsColl, ProductFilter(product),
                                 IF limit = <<>> THEN DefaultLimitServe ELSE limit[1]) :
       response' = <<[impl |-> "30_inspect_db", tool |-> "search_documents",
                      product |-> product, path |-> <<>>, raised |-> FALSE,
                      found |-> TRUE,
                      results |-> [k \in 1..Len(objs) |-> DocumentProperties(objs[k])]]>>
  /\ UNCHANGED <<storeVars, clsVars, chkVars, valVars, idxVars, crawlVars,
                 connVars>>

\* 30_inspect_db.py: one round of the loop over tmp_path: doc = fetch_document(
\* tmp_path) is None when no object matches, and doc["path"] then raises TypeError
InspectFetchDocument(tmp_path) ==
  /\ response = <<>>
  /\ \E objs \in FetchResponses(docsColl, tmp_path) :
       response' = <<[impl |-> "30_inspect_db", tool |-> "fetch_document",
                      product |-> <<>>, path |-> <<tmp_path>>, raised |-> objs = <<>>,
                      found |-> objs # <<>>,
                      results |-> IF objs = <<>> THEN <<>>
                                  ELSE <<DocumentProperties(objs[1])>>]>>
  /\ UNCHANGED <<storeVars, clsVars, chkVars, valVars, idxVars, crawlVars,
                 connVars>>

\* the answer of a call goes back to the caller and the server takes the next call
ReturnResponse ==
  /\ response # <<>>
  /\ response' = <<>>
  /\ UNCHANGED <<storeVars, clsVars, chkVars, valVars, idxVars, crawlVars,
                 connVars>>

NextRetrieve ==
  \/ \E product \in ProductArgs, limit \in LimitArgs : BuildSearchChunks(product, limit)
  \/ \E product \in ProductArgs, limit \in LimitArgs : BuildSearchDocuments(product, limit)
  \/ \E path \in PathArgs : BuildFetchDocument(path)
  \/ \E name \in UnknownToolNames : BuildUnknownTool(name)
  \/ \E product \in ProductArgs, limit \in LimitArgs : ServeSearchChunks(product, limit)
  \/ \E product \in ProductArgs, limit \in LimitArgs : ServeSearchDocuments(product, limit)
  \/ \E url \in PathArgs : ServeFetchDocument(url)
  \/ \E product \in ProductArgs, limit \in LimitArgs : InspectSearchChunks(product, limit)
  \/ \E product \in ProductArgs, limit \in LimitArgs : InspectSearchDocuments(product, limit)
  \/ \E tmp_path \in PathArgs : InspectFetchDocument(tmp_path)
  \/ ReturnResponse

SpecRetrieve == InitRetrieve /\ [][NextRetrieve]_vars

(***************************************************************************)
(* The document resources of serve_mcp.py: vdb-doc://{url} and             *)
(* weaviate-doc://{path}.  Both end in fetch_document_resource_generic.    *)
(***************************************************************************)

\* serve_mcp.py: the base URL that fetch_weaviate_document_resource puts before
\* a path: "https://docs.weaviate.io/"
WeaviateBase ==
  <<"h", "t", "t", "p", "s", ":", "/", "/", "d", "o", "c", "s", ".", "w", "e", "a", "v", "i", "a", "t", "e", ".", "i", "o", "/">>

\* the argument of path.startswith: "http"
HttpPrefix == <<"h", "t", "t", "p">>

\* s.startswith(prefix)
StartsWith(s, prefix) ==
  Len(s) >= Len(prefix) /\ SubSeq(s, 1, Len(prefix)) = prefix

\* paths below the base URL: "p", "http-api" and "q"
BarePathP == <<"p">>
BarePathHttpApi == <<"h", "t", "t", "p", "-", "a", "p", "i">>
BarePathQ == <<"q">>
BarePaths == {BarePathP, BarePathHttpApi, BarePathQ}

\* what a client may put after the scheme of a resource URI: a bare path, the
\* full URL of a page, a full URL with the scheme http
ResourceArgs ==
  BarePaths \cup {WeaviateBase \o BarePathP, WeaviateBase \o BarePathHttpApi,
                  <<"h", "t", "t", "p", ":", "/", "/", "d", "o", "c", "s", ".", "w", "e", "a", "v", "i", "a", "t", "e", ".", "i", "o", "/">> \o BarePathP}

\* the Documents objects that indexing weaviate_docs_crawl4ai.json leaves for the
\* pages "p" and "http-api" of the site
WeaviateDocuments ==
  {<<>>} \cup
  {<<DocumentObject(<<"w", "e", "a", "v", "i", "a", "t", "e">>, WeaviateBase \o BarePathP, b)>> : b \in {EmptyBody, ShortBody}} \cup
  {<<DocumentObject(<<"w", "e", "a", "v", "i", "a", "t", "e">>, WeaviateBase \o BarePathHttpApi, b)>> :
     b \in {EmptyBody, ShortBody}} \cup
  {<<DocumentObject(<<"w", "e", "a", "v", "i", "a", "t", "e">>, WeaviateBase \o BarePathP, b1),
     DocumentObject(<<"w", "e", "a", "v", "i", "a", "t", "e">>, WeaviateBase \o BarePathHttpApi, b2)>> :
     b1 \in {EmptyBody, ShortBody}, b2 \in {EmptyBody, ShortBody}}

\* serve_mcp.py: fetch_document_resource_generic(url): the lookup it makes and
\* the text it returns, "Error: Document not found at path: {url}" or the page
\* with its path and product as a heading
FetchDocumentResourceGeneric(coll, url) ==
  {[lookup |-> url, found |-> objs # <<>>,
    text |-> IF objs = <<>>
               THEN <<"Error: Document not found at path: ", url>>
               ELSE <<"# ", objs[1].path, "Product: ", objs[1].product,
                      JoinWords(objs[1].body)>>] :
     objs \in FetchResponses(coll, url)}

\* serve_mcp.py: the path fetch_weaviate_document_resource hands on
WeaviateDocPath(path) ==
  IF ~StartsWith(path, HttpPrefix) THEN WeaviateBase \o path ELSE path

InitResources ==
  /\ chunksColl = <<>>
  /\ docsColl \in WeaviateDocuments
  /\ existing = {"Chunks", "Documents"}
  /\ autoschema = TRUE
  /\ rpc = "off"
  /\ response = <<>>
  /\ ClassifierIdle
  /\ ChunkerIdle
  /\ ValidatorIdle
  /\ IndexerIdle
  /\ CrawlerIdle
  /\ ConnectionsIdle

\* serve_mcp.py: fetch_document_resource(url), the resource vdb-doc://{url}
FetchDocumentResource(url) ==
  /\ response = <<>>
  /\ \E r \in FetchDocumentResourceGeneric(docsColl, url) :
       response' = <<[impl |-> "serve_mcp", tool |-> "vdb-doc", arg |-> url,
                      raised |-> FALSE, answer |-> r]>>
  /\ UNCHANGED <<storeVars, clsVars, chkVars, valVars, idxVars, crawlVars,
                 connVars>>

\* serve_mcp.py: fetch_weaviate_document_resource(path), the resource
\* weaviate-doc://{path}
FetchWeaviateDocumentResource(path) ==
  /\ response = <<>>
  /\ \E r \in FetchDocumentResourceGeneric(docsColl, WeaviateDocPath(path)) :
       response' = <<[impl |-> "serve_mcp", tool |-> "weaviate-doc", arg |-> path,
                      raised |-> FALSE, answer |-> r]>>
  /\ UNCHANGED <<storeVars, clsVars, chkVars, valVars, idxVars, crawlVars,
                 connVars>>

NextResources ==
  \/ \E url \in ResourceArgs : FetchDocumentResource(url)
  \/ \E path \in ResourceArgs : FetchWeaviateDocumentResource(path)
  \/ ReturnResponse

SpecResources == InitResources /\ [][NextResources]_vars

(***************************************************************************)
(* The store connection of a tool invocation: call_tool of 40_build_mcp.py *)
(* and the generic functions of serve_mcp.py.  Each invocation connects    *)
(* before its try block, queries inside it and closes its client in the    *)
(* finally clause.  Invocations may overlap: the steps of different        *)
(* invocations interleave.                                                 *)
(***************************************************************************)
\* the number of tool invocations of a behaviour
MaxInvocations == 2

\* the tools of each server; "other" is a name call_tool does not know
ToolsOf(impl) ==
  IF impl = "40_build_mcp"
    THEN {"search_chunks", "search_documents", "fetch_document", "other"}
    ELSE {"search_chunks", "search_documents", "fetch_document"}

\* how the try block of a tool may end; "bad_arguments" is the KeyError of
\* arguments["query"] or arguments["path"] in call_tool's helpers, raised
\* before the client is used (serve_mcp's tools take their arguments as
\* parameters and are not entered without them)
OutcomesOf(impl, tool) ==
  (CASE tool \in {"search_chunks", "search_documents"} -> {"results", "empty", "raised"}
     [] tool = "fetch_document" -> {"found", "not_found", "raised"}
     [] OTHER -> {"unknown_tool"})
  \cup (IF impl = "40_build_mcp" /\ tool # "other" THEN {"bad_arguments"} ELSE {})

\* the ends of the try block that come before any use of the client
RaisedBeforeUse == {"unknown_tool", "bad_arguments"}

\* a client that is closed only when the try block returns (a variant of
\* ReleasedOn)
ReleasedOnReturn(outcome) == outcome \notin {"raised", "unknown_tool", "bad_arguments"}

\* finally: client.close() runs however the try block ended
ReleasedOn(outcome) == TRUE

\* the client connect_to_local makes next
FreshClient == Cardinality({e \in client_log : e.op = "open"}) + 1

InitConnections ==
  /\ invocations = <<>>
  /\ open_clients = {}
  /\ client_log = {}
  /\ ClassifierIdle
  /\ ChunkerIdle
  /\ ValidatorIdle
  /\ IndexerIdle
  /\ StoreIdle
  /\ RetrievalIdle
  /\ CrawlerIdle

\* a caller invokes a tool
Invoke(impl, tool) ==
  /\ Len(invocations) < MaxInvocations
  /\ tool \in ToolsOf(impl)
  /\ invocations' = Append(invocations,
       [impl |-> impl, tool |-> tool, pc |-> "called", client |-> <<>>,
        outcome |-> <<>>])
  /\ UNCHANGED <<open_clients, client_log, clsVars, chkVars, valVars, idxVars,
                 storeVars, response, crawlVars>>

\* client = weaviate.connect_to_local(...), before the try block
Connect(i) ==
  /\ i \in DOMAIN invocations
  /\ invocations[i].pc = "called"
  /\ invocations' = [invocations EXCEPT ![i].pc = "try", ![i].client = <<FreshClient>>]
  /\ open_clients' = open_clients \cup {FreshClient}
  /\ client_log' = client_log \cup
       {[invocation |-> i, client |-> FreshClient, op |-> "open"]}
  /\ UNCHANGED <<clsVars, chkVars, valVars, idxVars, storeVars, response, crawlVars>>

\* connect_to_local raises (the store cannot be reached): there is no client
ConnectRaises(i) ==
  /\ i \in DOMAIN invocations
  /\ invocations[i].pc = "called"
  /\ invocations' = [invocations EXCEPT ![i].pc = "done", ![i].outcome = <<"raised">>]
  /\ UNCHANGED <<open_clients, client_log, clsVars, chkVars, valVars, idxVars,
                 storeVars, response, crawlVars>>

\* the try block: the query on the invocation's own client, or the ValueError
\* for an unknown tool name, or the KeyError for a missing argument
RunTool(i, outcome) ==
  /\ i \in DOMAIN invocations
  /\ invocations[i].pc = "try"
  /\ outcome \in OutcomesOf(invocations[i].impl, invocations[i].tool)
  /\ invocations[i].client[1] \notin open_clients
       => outcome \in {"raised"} \cup RaisedBeforeUse
  /\ invocations' = [invocations EXCEPT ![i].pc = "finally", ![i].outcome = <<outcome>>]
  /\ client_log' = client_log \cup
       (IF outcome \in RaisedBeforeUse THEN {}
        ELSE {[invocation |-> i, client |-> invocations[i].client[1], op |-> "use"]})
  /\ UNCHANGED <<open_clients, clsVars, chkVars, valVars, idxVars, storeVars, response,
                 crawlVars>>

\* the finally clause: client.close(); the invocation returns or raises
CloseClient(i) ==
  /\ i \in DOMAIN invocations
  /\ invocations[i].pc = "finally"
  /\ invocations' = [invocations EXCEPT ![i].pc = "done"]
  /\ IF ReleasedOn(invocations[i].outcome[1])
       THEN /\ open_clients' = open_clients \ {invocations[i].client[1]}
            /\ client_log' = client_log \cup
                 {[invocation |-> i, client |-> invocations[i].client[1],
                   op |-> "close"]}
       ELSE UNCHANGED <<open_clients, client_log>>
  /\ UNCHANGED <<clsVars, chkVars, valVars, idxVars, storeVars, response, crawlVars>>

NextConnections ==
  \/ \E impl \in {"40_build_mcp", "serve_mcp"}, tool \in ToolsOf("40_build_mcp") :
       Invoke(impl, tool)
  \/ \E i \in 1..MaxInvocations : Connect(i)
  \/ \E i \in 1..MaxInvocations : ConnectRaises(i)
  \/ \E i \in 1..MaxInvocations, outcome \in {"results", "empty", "found", "not_found",
                                             "raised", "unknown_tool",
                                             "bad_arguments"} :
       RunTool(i, outcome)
  \/ \E i \in 1..MaxInvocations : CloseClient(i)

SpecConnections == InitConnections /\ [][NextConnections]_vars

(***************************************************************************)
(* Crawl: 1_get_docs.py.  main() runs its jobs one after another; each job *)
(* is a breadth-first deep crawl (BFSDeepCrawlStrategy, max_depth=4,       *)
(* include_external=False) behind a filter chain of a DomainFilter and,    *)
(* when url_pattern is given, a URLPatternFilter.  The strategy fetches    *)
(* the start URL without asking the filters, keeps the result of every     *)
(* fetch, failed or not, and follows the links of successful fetches only. *)
(* main() writes result.markdown under result.url for every result.        *)
(***************************************************************************)
\* max_depth of the strategy
MaxDepth == 4

\* the URLs of the crawled site d.io, of its subdomain s.d.io and of another
\* site, x.io
UrlStart == <<"h", "t", "t", "p", "s", ":", "/", "/", "d", ".", "i", "o", "/", "d", "o", "c", "s">>
UrlDoc1 ==
  <<"h", "t", "t", "p", "s", ":", "/", "/", "d", ".", "i", "o", "/", "d", "o", "c", "s",
  "/", "1">>
UrlDoc2 ==
  <<"h", "t", "t", "p", "s", ":", "/", "/", "d", ".", "i", "o", "/", "d", "o", "c", "s",
  "/", "2">>
UrlDoc3 ==
  <<"h", "t", "t", "p", "s", ":", "/", "/", "d", ".", "i", "o", "/", "d", "o", "c", "s",
  "/", "3">>
UrlDoc4 ==
  <<"h", "t", "t", "p", "s", ":", "/", "/", "d", ".", "i", "o", "/", "d", "o", "c", "s",
  "/", "4">>
UrlDoc5 ==
  <<"h", "t", "t", "p", "s", ":", "/", "/", "d", ".", "i", "o", "/", "d", "o", "c", "s",
  "/", "5">>
UrlBlog == <<"h", "t", "t", "p", "s", ":", "/", "/", "d", ".", "i", "o", "/", "b", "l", "o", "g">>
UrlSub ==
  <<"h", "t", "t", "p", "s", ":", "/", "/", "s", ".", "d", ".", "i", "o", "/", "d", "o",
  "c", "s", "/", "6">>
UrlExt ==
  <<"h", "t", "t", "p", "s", ":", "/", "/", "x", ".", "i", "o", "/", "d", "o", "c", "s",
  "/", "e">>
Urls ==
  {UrlStart, UrlDoc1, UrlDoc2, UrlDoc3, UrlDoc4, UrlDoc5, UrlBlog, UrlSub, UrlExt}

\* the links of each page, as the page lists them
LinksOf(url) ==
  CASE url = UrlStart -> <<UrlDoc1, UrlBlog, UrlExt>>
    [] url = UrlDoc1 -> <<UrlDoc2, UrlStart, UrlSub>>
    [] url = UrlDoc2 -> <<UrlDoc3>>
    [] url = UrlDoc3 -> <<UrlDoc4>>
    [] url = UrlDoc4 -> <<UrlDoc5, UrlExt>>
    [] url = UrlBlog -> <<UrlDoc4>>
    [] url = UrlSub -> <<UrlDoc3>>
    [] url = UrlExt -> <<UrlBlog>>
    [] OTHER -> <<>>

\* the jobs, each with the four keys of the dicts of main()'s jobs literal:
\* with a pattern the start URL does not match, without a pattern,
\* with a pattern the start URL matches, and with a start URL outside the
\* allowed domain
JobPattern ==
  [name |-> "p", allowed_domains |-> <<<<"d", ".", "i", "o">>>>, start_url |-> UrlStart,
   url_pattern |-> <<<<"*", "/", "d", "o", "c", "s", "/", "*">>>>]
JobPlain ==
  [name |-> "n", allowed_domains |-> <<<<"d", ".", "i", "o">>>>, start_url |-> UrlStart,
   url_pattern |-> <<>>]
JobInside ==
  [name |-> "i", allowed_domains |-> <<<<"d", ".", "i", "o">>>>, start_url |-> UrlDoc1,
   url_pattern |-> <<<<"*", "/", "d", "o", "c", "s", "/", "*">>>>]
JobOutside ==
  [name |-> "o", allowed_domains |-> <<<<"d", ".", "i", "o">>>>, start_url |-> UrlExt,
   url_pattern |-> <<>>]
Jobs == {JobPattern, JobPlain, JobInside, JobOutside}

\* the job lists of main(): one job, or two different jobs in either order
JobLists ==
  {<<j>> : j \in Jobs} \cup {<<j, k>> : <<j, k>> \in {jk \in Jobs \X Jobs : jk[1] # jk[2]}}

\* the part of a URL between "://" and the next "/"
RECURSIVE SchemeEnd(_, _)
SchemeEnd(url, i) ==
  IF i + 2 > Len(url) THEN 0
  ELSE IF SubSeq(url, i, i + 2) = <<":", "/", "/">> THEN i + 2
  ELSE SchemeEnd(url, i + 1)
RECURSIVE UpToSlash(_, _)
UpToSlash(str, i) ==
  IF i > Len(str) \/ str[i] = "/" THEN SubSeq(str, 1, i - 1) ELSE UpToSlash(str, i + 1)
ExtractDomain(url) ==
  ToLower(UpToSlash(SubSeq(url, SchemeEnd(url, 1) + 1, Len(url)), 1))

\* DomainFilter: the domain is an allowed one or a subdomain of one
IsSubdomain(domain, allowed) ==
  \/ domain = allowed
  \/ /\ Len(domain) > Len(allowed)
     /\ SubSeq(domain, Len(domain) - Len(allowed), Len(domain)) = <<".">> \o allowed
DomainFilter(url, allowed_domains) ==
  \E i \in 1..Len(allowed_domains) : IsSubdomain(ExtractDomain(url), allowed_domains[i])

\* a glob pattern against a whole string: "*" stands for any characters
RECURSIVE GlobMatch(_, _)
GlobMatch(pattern, str) ==
  IF pattern = <<>> THEN str = <<>>
  ELSE IF Head(pattern) = "*"
    THEN GlobMatch(Tail(pattern), str) \/ (str # <<>> /\ GlobMatch(pattern, Tail(str)))
  ELSE str # <<>> /\ Head(str) = Head(pattern) /\ GlobMatch(Tail(pattern), Tail(str))

\* URLPatternFilter: one of the patterns matches
URLPatternFilter(url, patterns) ==
  \E i \in 1..Len(patterns) : GlobMatch(patterns[i], url)

\* a filter chain that asks the DomainFilter only (a variant of CanProcessUrl)
CanProcessUrlDomainOnly(j, url, depth) ==
  depth # 0 => DomainFilter(url, j.allowed_domains)

\* can_process_url: below the start URL the whole filter chain must accept
CanProcessUrl(j, url, depth) ==
  depth # 0 =>
    /\ DomainFilter(url, j.allowed_domains)
    /\ j.url_pattern # <<>> => URLPatternFilter(url, j.url_pattern)

\* get_base_domain of the crawler: the last two labels of the page's host
\* (the hosts here have no port, no "www." and no second-level suffix)
BaseDomain(url) ==
  LET LastTwoLabels(host) ==
        LET dots == {i \in 1..Len(host) : host[i] = "."}
            last == CHOOSE i \in dots : \A k \in dots : k <= i
            before == CHOOSE i \in dots \ {last} : \A k \in dots \ {last} : k <= i
        IN  IF Cardinality(dots) < 2 THEN host ELSE SubSeq(host, before + 1, Len(host))
  IN  LastTwoLabels(ExtractDomain(url))

\* is_external_url of the crawler: a link is external when its host does not
\* end with the base domain of the page that holds it
IsExternalUrl(url, base_domain) ==
  LET EndsWith(str, suffix) ==
        /\ Len(str) >= Len(suffix)
        /\ SubSeq(str, Len(str) - Len(suffix) + 1, Len(str)) = suffix
  IN  ~EndsWith(ExtractDomain(url), base_domain)

\* result.links["internal"]: the links of a page that are not external; with
\* include_external=False the strategy follows no other link
InternalLinks(url) ==
  SelectSeq(LinksOf(url), LAMBDA l : ~IsExternalUrl(l, BaseDomain(url)))

\* the result of one fetch: the page's markdown, or none for a failed fetch
CrawlResult(url, success) ==
  [url |-> url, success |-> success, markdown |-> IF success THEN <<url>> ELSE <<>>]

\* link_discovery over the successful results of a level, result by result:
\* the new URLs of the next level, in order of discovery
RECURSIVE Discover(_, _, _, _)
Discover(j, todo, seen, depth) ==
  IF todo = <<>> \/ depth + 1 > MaxDepth THEN <<>>
  ELSE LET new == SelectSeq(InternalLinks(Head(todo)),
                            LAMBDA l : l \notin seen /\ CanProcessUrl(j, l, depth + 1))
           firsts == SelectSeq([k \in 1..Len(new) |-> k],
                               LAMBDA k : \A m \in 1..(k - 1) : new[m] # new[k])
           uniq == [k \in 1..Len(firsts) |-> new[firsts[k]]]
       IN  uniq \o Discover(j, Tail(todo), seen \cup {uniq[k] : k \in 1..Len(uniq)},
                            depth)

\* a file of the output directory: results_md of a job
ResultsMd(rs) ==
  [u \in {rs[k].url : k \in 1..Len(rs)} |->
     (CHOOSE k \in 1..Len(rs) :
        rs[k].url = u /\ \A m \in (k + 1)..Len(rs) : rs[m].url # u) ]

InitCrawl ==
  /\ cpc = "main"
  /\ jobs \in JobLists
  /\ job = <<>>
  /\ current_level = <<>>
  /\ visited = {}
  /\ depths = <<>>
  /\ results = <<>>
  /\ outputDir = <<>>
  /\ fetch_log = {}
  /\ ClassifierIdle
  /\ ChunkerIdle
  /\ ValidatorIdle
  /\ IndexerIdle
  /\ StoreIdle
  /\ RetrievalIdle
  /\ ConnectionsIdle

\* main(): the loop takes a job; crawl_docs starts at the job's start URL
StartJob ==
  /\ cpc = "main"
  /\ jobs # <<>>
  /\ job' = <<Head(jobs)>>
  /\ jobs' = Tail(jobs)
  /\ current_level' = <<Head(jobs).start_url>>
  /\ visited' = {}
  /\ depths' = [u \in {Head(jobs).start_url} |-> 0]
  /\ results' = <<>>
  /\ cpc' = "crawl"
  /\ UNCHANGED <<outputDir, fetch_log, clsVars, chkVars, valVars, idxVars, storeVars,
                 response, connVars>>

\* one level of the crawl: every URL of the level is fetched, the fetches of
\* failing fail, every result is kept, the links of the successful are followed
CrawlLevel(failing) ==
  /\ cpc = "crawl"
  /\ current_level # <<>>
  /\ failing \subseteq {current_level[k] : k \in 1..Len(current_level)}
  /\ LET j == job[1]
         depth == depths[current_level[1]]
         seen == visited \cup {current_level[k] : k \in 1..Len(current_level)}
         batch_results == [k \in 1..Len(current_level) |->
                             CrawlResult(current_level[k], current_level[k] \notin failing)]
         next_level == Discover(j, SelectSeq(current_level, LAMBDA u : u \notin failing),
                                seen, depth)
         found == {next_level[k] : k \in 1..Len(next_level)}
     IN  /\ results' = results \o batch_results
         /\ visited' = seen \cup found
         /\ depths' = [u \in DOMAIN depths \cup found |->
                         IF u \in DOMAIN depths THEN depths[u] ELSE depth + 1]
         /\ current_level' = next_level
         /\ fetch_log' = fetch_log \cup
              {[job |-> j.name, url |-> batch_results[k].url,
                success |-> batch_results[k].success, depth |-> depth] :
                 k \in 1..Len(batch_results)}
  /\ UNCHANGED <<cpc, jobs, job, outputDir, clsVars, chkVars, valVars, idxVars,
                 storeVars, response, connVars>>

\* the crawl of the job is through: main() writes {name}_crawl4ai.json
WriteSnapshot ==
  /\ cpc = "crawl"
  /\ current_level = <<>>
  /\ LET md == ResultsMd(results)
         file == job[1].name
     IN  outputDir' = [f \in DOMAIN outputDir \cup {file} |->
                         IF f = file
                           THEN [u \in DOMAIN md |-> results[md[u]].markdown]
                           ELSE outputDir[f]]
  /\ job' = <<>>
  /\ cpc' = "main"
  /\ UNCHANGED <<jobs, current_level, visited, depths, results, fetch_log, clsVars,
                 chkVars, valVars, idxVars, storeVars, response, connVars>>

NextCrawl ==
  \/ StartJob
  \/ \E failing \in SUBSET Urls : CrawlLevel(failing)
  \/ WriteSnapshot

SpecCrawl == InitCrawl /\ [][NextCrawl]_vars

(***************************************************************************)
(* Properties of is_problematic_content (checked under SpecClassify).      *)
(***************************************************************************)
\* text contains marker when the case of letters is ignored
ContainsCI(str, marker) ==
  \E k \in 0..(Len(str) - Len(marker)) :
     \A i \in 1..Len(marker) : LowerChar(str[k + i]) = LowerChar(marker[i])

\* the number of characters left when leading and trailing whitespace is dropped
StrippedLength(str) ==
  Cardinality({i \in 1..Len(str) :
     /\ \E j \in 1..i : str[j] \notin Whitespace
     /\ \E j \in i..Len(str) : str[j] \notin Whitespace})

\* C3: every content string shorter than 50 characters (the empty and the
\* whitespace-only strings included) is classified problematic.
C3_ShortIsProblematic ==
  (verdict # <<>> /\ Len(content) < 50) => verdict = <<TRUE>>

\* a 49-character string without indicator was classified problematic
C3_Witness ==
  /\ verdict = <<TRUE>>
  /\ Len(content) = 49
  /\ \A n \in 1..Len(security_indicators) : ~ContainsCI(content, security_indicators[n])
  /\ \E i \in 1..Len(content) : content[i] \notin Whitespace

\* C4 as stated: every content string containing, case-insensitively, a marker
\* of the specification's challenge-phrase list is classified problematic.
C4_SpecMarkerIsProblematic ==
  (verdict # <<>> /\ \E n \in 1..Len(SpecMarkers) : ContainsCI(content, SpecMarkers[n]))
     => verdict = <<TRUE>>

\* the specification's list with the three phrases the source spells longer
AmendedMarkers ==
  ({SpecMarkers[n] : n \in 1..Len(SpecMarkers)}
      \ {SpecMarkers[1], SpecMarkers[2], SpecMarkers[9]})
  \cup {ToLower(security_indicators[1]), ToLower(security_indicators[2]),
        ToLower(security_indicators[10])}

\* C4 amended: every content string containing, case-insensitively, one of
\* "just a moment...", "enable javascript and cookies to continue",
\* "checking your browser", "access denied", "403 forbidden", "404 not found",
\* "500 internal server error", "ray id:", "please verify you are a human",
\* "security check", "captcha" is classified problematic, whatever its length.
C4_IndicatorIsProblematic ==
  (verdict # <<>> /\ \E m \in AmendedMarkers : ContainsCI(content, m))
     => verdict = <<TRUE>>

\* a string of 50 or more characters besides whitespace, holding an indicator in
\* upper case, was classified problematic
C4_Witness ==
  /\ verdict = <<TRUE>>
  /\ StrippedLength(content) >= 50
  /\ \E m \in AmendedMarkers : Contains(content, ToUpper(m)) /\ ToUpper(m) # m

\* C8 as stated: an entry is problematic exactly if its text is empty or
\* whitespace-only, or shorter than 50 characters, or contains a marker of the
\* specification's list case-insensitively.
C8_SpecRules ==
  verdict # <<>> =>
    (verdict = <<TRUE>> <=>
       \/ \A i \in 1..Len(content) : content[i] \in Whitespace
       \/ Len(content) < 50
       \/ \E n \in 1..Len(SpecMarkers) : ContainsCI(content, SpecMarkers[n]))

\* C8 amended: an entry is problematic exactly if its text is empty, or its text
\* without leading and trailing whitespace is shorter than 50 characters, or it
\* contains an indicator of the source's list case-insensitively; every text with
\* 50 or more characters between its first and last non-whitespace character and
\* no indicator is clean.
C8_SourceRules ==
  verdict # <<>> =>
    (verdict = <<TRUE>> <=>
       \/ Len(content) = 0
       \/ StrippedLength(content) < 50
       \/ \E n \in 1..Len(security_indicators) :
            ContainsCI(content, security_indicators[n]))

\* a string of 50 or more characters, fewer than 50 of them besides the
\* surrounding whitespace and no indicator among them, was classified problematic
C8_Witness ==
  /\ verdict = <<TRUE>>
  /\ Len(content) >= 50
  /\ StrippedLength(content) < 50
  /\ \A n \in 1..Len(security_indicators) : ~ContainsCI(content, security_indicators[n])

(***************************************************************************)
(* Properties of the chunker (checked under SpecChunk).                    *)
(***************************************************************************)
\* the chunks in chunk_no order, each after the first without its first
\* 128 tokens, one after the other
RECURSIVE Reassemble(_, _)
Reassemble(cs, k) ==
  IF k > Len(cs) THEN <<>>
  ELSE (IF k = 1 THEN cs[k].chunk
        ELSE SubSeq(cs[k].chunk, 128 + 1, Len(cs[k].chunk)))
       \o Reassemble(cs, k + 1)

\* C2: the chunks of a body (window 512, overlap 128, word tokens), in
\* chunk_no order with the 128-token overlap of consecutive chunks removed,
\* are the body's token stream; the removed tokens repeat the previous chunk's
\* last 128 tokens, no chunk exceeds 512 tokens, chunk_no counts from 0.
C2_ChunksReconstruct ==
  text_chunks # <<>> =>
    LET cs == text_chunks[1]
    IN  /\ Reassemble(cs, 1) = text
        /\ \A k \in 1..Len(cs) :
             /\ cs[k].chunk_no = k - 1
             /\ Len(cs[k].chunk) \in 1..512
             /\ k > 1 =>
                  /\ Len(cs[k].chunk) > 128
                  /\ SubSeq(cs[k].chunk, 1, 128)
                       = SubSeq(cs[k - 1].chunk, Len(cs[k - 1].chunk) - 127,
                                Len(cs[k - 1].chunk))
        /\ \A i \in 1..Len(text) :
             \E k \in 1..Len(cs) : \E j \in 1..Len(cs[k].chunk) : cs[k].chunk[j] = text[i]

\* a body of all different words that needed three chunks was chunked
C2_Witness ==
  /\ text_chunks # <<>>
  /\ Len(text_chunks[1]) = 3
  /\ \A i \in 1..Len(text) : text[i] = i

(***************************************************************************)
(* Properties of process_file (checked under SpecValidate).                *)
(***************************************************************************)
\* the files whose process_file call has returned
Returned == DOMAIN processedDir \cup (IF vpc = "save" THEN {input_file[1]} ELSE {})

\* what process_file(f) returned
Output(f) == IF f \in DOMAIN processedDir THEN processedDir[f] ELSE data

\* the re-fetches of URL u of file f
RefetchesOf(f, u) ==
  {i \in 1..Len(refetches) : refetches[i].file = f /\ refetches[i].url = u}

\* C5: in a run of process_file every entry classified problematic in the
\* first pass is re-fetched exactly once, with cache bypass, every other entry
\* never, and no URL is re-fetched twice whatever its re-fetch came to.
C5_RefetchedExactlyOnce ==
  /\ \A i \in 1..Len(refetches) : refetches[i].cache_mode = "BYPASS"
  /\ \A f \in DOMAIN rawDir : \A u \in DOMAIN rawDir[f] :
       /\ Cardinality(RefetchesOf(f, u)) <= 1
       /\ f \in Returned =>
            Cardinality(RefetchesOf(f, u))
              = (IF IsProblematicContent(rawDir[f][u]) THEN 1 ELSE 0)

\* a run ended in which one re-fetch raised and another returned a text that
\* was problematic again
C5_Witness ==
  /\ vpc = "done"
  /\ \E i, j \in 1..Len(refetches) :
       /\ refetches[i].outcome.kind = "exception"
       /\ refetches[j].outcome.kind = "result"
       /\ IsProblematicContent(refetches[j].outcome.markdown)

\* C6: the text of a problematic entry is replaced by the re-fetched text if
\* and only if the re-fetch returned a result without raising and the new text
\* is not problematic; otherwise the output keeps the original text and the URL
\* is reported as kept.
C6_ReplacedIffRepaired ==
  \A f \in Returned : \A u \in DOMAIN rawDir[f] :
     IsProblematicContent(rawDir[f][u]) =>
       /\ RefetchesOf(f, u) # {}
       /\ \A i \in RefetchesOf(f, u) :
            LET o == refetches[i].outcome
                repaired == o.kind = "result" /\ ~IsProblematicContent(o.markdown)
            IN  /\ repaired => Output(f)[u] = o.markdown /\ Output(f)[u] # rawDir[f][u]
                /\ ~repaired =>
                     /\ Output(f)[u] = rawDir[f][u]
                     /\ [line |-> "Keeping original content", file |-> f, url |-> u]
                          \in printed

\* a file was saved with one entry replaced by a clean re-fetched text and
\* another kept because its re-fetch returned problematic text
C6_Witness ==
  \E f \in DOMAIN processedDir : \E u, v \in DOMAIN rawDir[f] :
     /\ IsProblematicContent(rawDir[f][u]) /\ processedDir[f][u] = FreshText
     /\ processedDir[f][v] = rawDir[f][v]
     /\ \E i \in RefetchesOf(f, v) : refetches[i].outcome.kind = "result"

\* C7: for a snapshot whose entries are all classified clean, process_file
\* performs no re-fetch and returns the input; the output of any run is again a
\* snapshot this holds for.
C7_CleanSnapshotUntouched ==
  \A f \in Returned :
     /\ Output(f) \in SnapshotInputs
     /\ (\A u \in DOMAIN rawDir[f] : ~IsProblematicContent(rawDir[f][u])) =>
          /\ \A i \in 1..Len(refetches) : refetches[i].file # f
          /\ Output(f) = rawDir[f]

\* a run ended that saved a clean two-entry snapshot unchanged and re-fetched
\* for the other file
C7_Witness ==
  /\ vpc = "done"
  /\ "f1" \in DOMAIN processedDir
  /\ Cardinality(DOMAIN rawDir["f1"]) = 2
  /\ \A u \in DOMAIN rawDir["f1"] : ~IsProblematicContent(rawDir["f1"][u])
  /\ processedDir["f1"] = rawDir["f1"]
  /\ refetches # <<>>

(***************************************************************************)
(* Properties of the indexing run (checked under SpecIndex).               *)
(***************************************************************************)
\* how often object o is in the list objs
Occurrences(objs, o) == Cardinality({i \in 1..Len(objs) : objs[i] = o})

\* two lists hold the same objects, each as often
SameObjects(a, b) ==
  /\ Len(a) = Len(b)
  /\ \A i \in 1..Len(a) : Occurrences(a, a[i]) = Occurrences(b, a[i])

\* a run that went to its end, no file of it cut by a crawl that was writing
\* it, and 0_reset_db.py not at work during it ("no concurrent writers to the
\* store during indexing")
RanAlone(h) == h.ended /\ ~h.aborted /\ ~h.reset

\* C1: a run over the directory an earlier run has indexed, with identical
\* content, leaves both collections as that run left them, with exactly one
\* Document object per (product, path) and exactly one Chunk object per
\* (product, path, chunk_no) of the snapshots, and no (product, path) or
\* (product, path, chunk_no) twice.
C1_ReindexIdempotent ==
  \A k \in 2..Len(history) :
     (/\ RanAlone(history[k - 1]) /\ RanAlone(history[k])
      /\ history[k].before_chunks = history[k - 1].chunks
      /\ history[k].before_docs = history[k - 1].docs
      /\ history[k].dir = history[k - 1].dir) =>
       LET h == history[k]
       IN  /\ SameObjects(h.chunks, history[k - 1].chunks)
           /\ SameObjects(h.docs, history[k - 1].docs)
           /\ \A stem \in DOMAIN h.dir : \A path \in DOMAIN h.dir[stem] :
                /\ Cardinality({i \in 1..Len(h.docs) :
                      h.docs[i].product = VdbName(stem) /\ h.docs[i].path = path}) = 1
                /\ \A no \in 0..(Len(ChunkerChunk(h.dir[stem][path])) - 1) :
                     Cardinality({i \in 1..Len(h.chunks) :
                        /\ h.chunks[i].product = VdbName(stem)
                        /\ h.chunks[i].path = path
                        /\ h.chunks[i].chunk_no = no}) = 1
           /\ \A i, j \in 1..Len(h.docs) :
                (h.docs[i].product = h.docs[j].product /\ h.docs[i].path = h.docs[j].path)
                   => i = j
           /\ \A i, j \in 1..Len(h.chunks) :
                (/\ h.chunks[i].product = h.chunks[j].product
                 /\ h.chunks[i].path = h.chunks[j].path
                 /\ h.chunks[i].chunk_no = h.chunks[j].chunk_no) => i = j

\* two runs ended over the same two-file directory that holds a page of two
\* chunks, and the store holds objects of both files
C1_Witness ==
  /\ Len(history) = 2
  /\ RanAlone(history[1]) /\ RanAlone(history[2])
  /\ history[2].before_chunks = history[1].chunks
  /\ history[2].before_docs = history[1].docs
  /\ history[2].dir = history[1].dir
  /\ DOMAIN history[2].dir = Stems
  /\ \E path \in DOMAIN history[2].dir[StemA] : history[2].dir[StemA][path] = LongBody
  /\ Len(history[2].docs) >= 2
  /\ Len(history[2].chunks) >= 3

(***************************************************************************)
(* Properties of the retrieval tools (SpecRetrieve).                       *)
(***************************************************************************)
\* the call that response answers
Answered == response # <<>>
TheCall == response[1]

\* C9: a fetch_document for a path that no Documents object has answers with a
\* not-found result and does not raise, in 40_build_mcp.py, in serve_mcp.py and
\* in 30_inspect_db.py with the loop that calls it.
C9_NotFoundNeverRaises ==
  (/\ Answered
   /\ TheCall.tool = "fetch_document"
   /\ \A i \in 1..Len(docsColl) : docsColl[i].path # TheCall.path[1])
     => ~TheCall.raised

\* C10: a search_chunks or search_documents call that supplies a product
\* returns no record whose product differs from the supplied one.
C10_ProductFilterRespected ==
  (/\ Answered
   /\ TheCall.tool \in {"search_chunks", "search_documents"}
   /\ TheCall.product # <<>>)
     => \A k \in 1..Len(TheCall.results) :
          TheCall.results[k].product = TheCall.product[1]

\* the stored bodies, as strings, of the Documents objects with a record's
\* product and path
StoredBodies(r) ==
  {JoinWords(docsColl[i].body) :
     i \in {j \in 1..Len(docsColl) :
              docsColl[j].product = r.product /\ docsColl[j].path = r.path}}

IsPrefix(s, t) == Len(s) <= Len(t) /\ s = SubSeq(t, 1, Len(s))

\* C11: the body of every record that search_documents returns (40_build_mcp.py,
\* serve_mcp.py) is the stored body cut to its first 500 characters: a prefix
\* of the stored body, of at most 500 characters, and the stored body itself
\* when that has 500 characters or fewer.
C11_BodyIsTruncatedPrefix ==
  (/\ Answered
   /\ TheCall.tool = "search_documents"
   /\ TheCall.impl \in {"40_build_mcp", "serve_mcp"})
     => \A k \in 1..Len(TheCall.results) :
          \E stored \in StoredBodies(TheCall.results[k]) :
            /\ IsPrefix(TheCall.results[k].body, stored)
            /\ Len(TheCall.results[k].body) <= PreviewLength
            /\ Len(stored) <= PreviewLength => TheCall.results[k].body = stored

\* C12: when a Documents object has exactly the requested path, fetch_document
\* answers with a record whose path is the argument and whose body is the whole
\* stored body of an object of that path; a record of any other path is never
\* returned.
C12_FetchIsExact ==
  (Answered /\ TheCall.tool = "fetch_document")
    => /\ (\E i \in 1..Len(docsColl) : docsColl[i].path = TheCall.path[1])
            => /\ TheCall.found
               /\ ~TheCall.raised
       /\ TheCall.found
            => /\ Len(TheCall.results) = 1
               /\ TheCall.results[1].path = TheCall.path[1]
               /\ \E i \in 1..Len(docsColl) :
                    TheCall.results[1] = DocumentProperties(docsColl[i])

\* a fetch of the page whose path begins another page's path, with a stored
\* body of more than 500 characters, answered with that whole body
C12_Witness ==
  /\ Answered
  /\ TheCall.tool = "fetch_document"
  /\ TheCall.impl \in {"40_build_mcp", "serve_mcp"}
  /\ TheCall.path = <<PathP>>
  /\ \E i \in 1..Len(docsColl) : docsColl[i].path = PathPChunk
  /\ TheCall.found
  /\ TheCall.results[1].body = LongBody
  /\ Len(JoinWords(TheCall.results[1].body)) > PreviewLength

\* C13: search_chunks, search_documents and fetch_document only read: no call,
\* whatever its arguments and its outcome, and so no sequence of calls, changes
\* the Chunks or the Documents collection.
C13_RetrievalOnlyReads ==
  [][chunksColl' = chunksColl /\ docsColl' = docsColl]_vars

\* search_documents has answered with a cut body while the collection still
\* holds the whole body of that document
C13_Witness ==
  /\ Answered
  /\ TheCall.tool = "search_documents"
  /\ TheCall.impl \in {"40_build_mcp", "serve_mcp"}
  /\ \E k \in 1..Len(TheCall.results) :
       /\ Len(TheCall.results[k].body) = PreviewLength + 3
       /\ \E i \in 1..Len(docsColl) :
            /\ docsColl[i].path = TheCall.results[k].path
            /\ docsColl[i].product = TheCall.results[k].product
            /\ docsColl[i].body = LongBody

(***************************************************************************)
(* Properties of the indexing run on pages without a chunk (SpecIndex).    *)
(***************************************************************************)
\* the objects of a collection with a product and a path
ObjectsOf(coll, product, path) ==
  {coll[i] : i \in {j \in 1..Len(coll) : coll[j].product = product /\ coll[j].path = path}}

\* C15: a page whose body has no token, and so no chunk, adds no object to
\* Chunks in a run (the Chunks objects of its product and path are those from
\* before the run), while its Documents object with product, path and the
\* empty body is written.
C15_ZeroChunksStillDocument ==
  \A k \in 1..Len(history) :
     LET h == history[k]
         before == h.before_chunks
     IN  \A stem \in DOMAIN h.dir : \A path \in DOMAIN h.dir[stem] :
           (RanAlone(h) /\ Len(h.dir[stem][path]) = 0)
             => /\ ObjectsOf(h.chunks, VdbName(stem), path)
                     = ObjectsOf(before, VdbName(stem), path)
                /\ \E o \in ObjectsOf(h.docs, VdbName(stem), path) :
                     o.body = h.dir[stem][path]

\* a run has ended over a snapshot with a page of empty body beside a page
\* that has chunks; Chunks holds nothing for the first, Documents holds it
C15_Witness ==
  /\ Len(history) >= 1
  /\ RanAlone(history[1])
  /\ StemA \in DOMAIN history[1].dir
  /\ DOMAIN history[1].dir[StemA] = {PathP, PathPChunk}
  /\ history[1].dir[StemA][PathP] = EmptyBody
  /\ history[1].dir[StemA][PathPChunk] = LongBody
  /\ ObjectsOf(history[1].chunks, VdbName(StemA), PathP) = {}
  /\ ObjectsOf(history[1].chunks, VdbName(StemA), PathPChunk) # {}
  /\ \E o \in ObjectsOf(history[1].docs, VdbName(StemA), PathP) : o.body = EmptyBody

(***************************************************************************)
(* Properties of the indexing run under errors (SpecIndexFaults).          *)
(***************************************************************************)
\* an object was submitted: the store holds it or has rejected it
Submitted(collection, coll, o) ==
  \/ \E i \in 1..Len(coll) : coll[i] = o
  \/ \E i \in 1..Len(failed_objects) :
       failed_objects[i] = [collection |-> collection, object |-> o]

\* an "Error ingesting" line names the page
Logged(stem, path) ==
  \E i \in 1..Len(logged) : logged[i] = [file |-> stem, path |-> path]

\* C14: an exception raised while one document is chunked or ingested is
\* caught and logged and stops neither the batch nor the run: the script does
\* not die of it, and when a run has ended the chunks of every page without
\* an error line and the Documents object of every page of every snapshot
\* have been submitted.
C14_ErrorsCaughtRunContinues ==
  /\ ipc # "aborted"
  /\ (ipc = "idle" /\ runNo >= 1)
       => \A stem \in DOMAIN snapDir : \A path \in DOMAIN snapDir[stem] :
            LET body == snapDir[stem][path]
                objs == ChunkObjects(VdbName(stem), path, body)
            IN  /\ Submitted("Documents", docsColl,
                             DocumentObject(VdbName(stem), path, body))
                /\ ~Logged(stem, path)
                     => \A k \in 1..Len(objs) : Submitted("Chunks", chunksColl, objs[k])

\* the run output names the page of a rejected object
Reported(entry) ==
  \E i \in 1..Len(logged) :
     /\ VdbName(logged[i].file) = entry.object.product
     /\ logged[i].path = entry.object.path

\* C16: when the store rejects objects of a batch, the run reports every
\* rejected object, item by item, and still submits the other batches: when
\* it has ended, every object of every page without an exception is in the
\* store or among the rejected ones.
C16_RejectedObjectsReported ==
  /\ \A i \in 1..Len(failed_objects) : Reported(failed_objects[i])
  /\ (ipc = "idle" /\ runNo >= 1)
       => \A stem \in DOMAIN snapDir : \A path \in DOMAIN snapDir[stem] :
            LET body == snapDir[stem][path]
                objs == ChunkObjects(VdbName(stem), path, body)
            IN  ~Logged(stem, path)
                  => /\ Submitted("Documents", docsColl,
                                  DocumentObject(VdbName(stem), path, body))
                     /\ \A k \in 1..Len(objs) :
                          Submitted("Chunks", chunksColl, objs[k])

(***************************************************************************)
(* Properties of the crawl (SpecCrawl).                                    *)
(***************************************************************************)
\* the job that wrote a file of the output directory
JobOf(file) == CHOOSE j \in Jobs : j.name = file

\* the URLs a job fetched, and those it fetched successfully
FetchedBy(file) == {e.url : e \in {x \in fetch_log : x.job = file}}
FetchedWell(file) == {e.url : e \in {x \in fetch_log : x.job = file /\ x.success}}

\* C17: the snapshot written for a job holds exactly the pages fetched and
\* parsed successfully; a page whose fetch failed has no key in it.
C17_SnapshotHoldsSuccessfulPagesOnly ==
  \A file \in DOMAIN outputDir :
     /\ DOMAIN outputDir[file] = FetchedWell(file)
     /\ \A url \in DOMAIN outputDir[file] : outputDir[file][url] # <<>>

\* the URLs within n link hops of a set of URLs
RECURSIVE WithinHops(_, _)
WithinHops(S, n) ==
  IF n = 0 THEN S
  ELSE WithinHops(S \cup UNION {{LinksOf(u)[k] : k \in 1..Len(LinksOf(u))} : u \in S},
                  n - 1)

\* a URL passes the filters of a job
PassesFilters(j, url) ==
  /\ DomainFilter(url, j.allowed_domains)
  /\ j.url_pattern # <<>> => URLPatternFilter(url, j.url_pattern)

\* the host of a URL is one of the allowed domains of a job
InAllowedDomains(j, url) ==
  \E i \in 1..Len(j.allowed_domains) : ExtractDomain(url) = j.allowed_domains[i]

\* C18 as stated: every URL key of a snapshot is in an allowed domain, matches
\* a pattern of the job when it has patterns, and is within 4 link hops of the
\* start URL; no external link is followed.
C18_EveryKeyPassesFilters ==
  \A file \in DOMAIN outputDir : \A url \in DOMAIN outputDir[file] :
     /\ InAllowedDomains(JobOf(file), url)
     /\ JobOf(file).url_pattern # <<>> => URLPatternFilter(url, JobOf(file).url_pattern)
     /\ url \in WithinHops({JobOf(file).start_url}, MaxDepth)

\* C18, with the start URL set apart: the start URL of a job is fetched, and
\* is a key of the job's snapshot, whatever the filters say; every other URL
\* key of a snapshot is in an allowed domain or in a subdomain of one, and
\* matches a pattern of the job when it has patterns; every key is within 4
\* link hops of the start URL; every page fetched below the start URL was
\* reached by a link of a successfully fetched page one level above that does
\* not leave the base domain of that page.
C18_KeysBelowStartPassFilters ==
  /\ \A file \in DOMAIN outputDir :
       /\ JobOf(file).start_url \in DOMAIN outputDir[file]
       /\ \A url \in DOMAIN outputDir[file] :
            /\ url # JobOf(file).start_url => PassesFilters(JobOf(file), url)
            /\ url \in WithinHops({JobOf(file).start_url}, MaxDepth)
  /\ \A e \in fetch_log :
       /\ e.depth <= MaxDepth
       /\ e.depth = 0 => e.url = JobOf(e.job).start_url
       /\ e.depth > 0 => \E s \in fetch_log :
                           /\ s.job = e.job
                           /\ s.success
                           /\ s.depth = e.depth - 1
                           /\ \E k \in 1..Len(LinksOf(s.url)) : LinksOf(s.url)[k] = e.url
                           /\ ~IsExternalUrl(e.url, BaseDomain(s.url))

\* the job with a pattern and the job that starts on the other site have
\* written their snapshots.  In the first the start URL, which misses the
\* pattern, the pages down to depth 4 and the page of the subdomain are keys;
\* the page at depth 5, the page that misses the pattern and the page of the
\* other site are not.  In the second the start page links a page of the
\* allowed domain, which the filters accept, and the page is no key: the
\* link leaves the base domain of the start page
C18_Witness ==
  /\ {"p", "o"} \subseteq DOMAIN outputDir
  /\ ~PassesFilters(JobPattern, UrlStart)
  /\ {UrlStart, UrlDoc1, UrlDoc2, UrlDoc3, UrlDoc4, UrlSub} \subseteq DOMAIN outputDir["p"]
  /\ DOMAIN outputDir["p"] \cap {UrlDoc5, UrlBlog, UrlExt} = {}
  /\ [job |-> "p", url |-> UrlDoc4, success |-> TRUE, depth |-> MaxDepth] \in fetch_log
  /\ ~InAllowedDomains(JobPattern, UrlSub)
  /\ [job |-> "o", url |-> UrlExt, success |-> TRUE, depth |-> 0] \in fetch_log
  /\ UrlBlog \in {LinksOf(UrlExt)[k] : k \in 1..Len(LinksOf(UrlExt))}
  /\ PassesFilters(JobOutside, UrlBlog)
  /\ DOMAIN outputDir["o"] = {UrlExt}

(***************************************************************************)
(* The validator and the raw snapshot directory (SpecValidate).            *)
(***************************************************************************)
\* C19: no step of a run of 15_supplementary_crawl.py changes a file of the
\* raw snapshot directory, and when the run is through, the result of every
\* file, repaired or not, is in the processed directory under the file's name.
C19_RawSnapshotsUntouched ==
  [][/\ rawDir' = rawDir
     /\ vpc' = "done" => /\ DOMAIN processedDir' = DOMAIN rawDir
                         /\ \A f \in DOMAIN rawDir :
                              DOMAIN processedDir'[f] = DOMAIN rawDir[f]]_vars

\* the run is through, an entry of the first file was repaired: the processed
\* file has the new text and the raw file still has the problematic one
C19_Witness ==
  /\ vpc = "done"
  /\ "f1" \in DOMAIN rawDir
  /\ "f1" \in DOMAIN processedDir
  /\ \E u \in DOMAIN rawDir["f1"] :
       /\ IsProblematicContent(rawDir["f1"][u])
       /\ processedDir["f1"][u] = FreshText
       /\ processedDir["f1"][u] # rawDir["f1"][u]

(***************************************************************************)
(* Properties of the store connections (SpecConnections).                  *)
(***************************************************************************)
\* the operations of the log on a client
OpsOn(client, op) == {e \in client_log : e.client = client /\ e.op = op}

\* C20: every invocation opens one connection of its own and closes it however
\* its try block ends; the open connections are those of the invocations
\* between connect and close, so none stays open once the invocations have
\* ended, also when invocations overlap; and every use and every close of a
\* connection is by the invocation that opened it.
C20_ConnectionReleasedOnEveryPath ==
  /\ open_clients =
       {invocations[i].client[1] :
          i \in {k \in DOMAIN invocations : invocations[k].pc \in {"try", "finally"}}}
  /\ \A i \in DOMAIN invocations :
       Cardinality({e \in client_log : e.invocation = i /\ e.op = "open"})
         = IF invocations[i].client = <<>> THEN 0 ELSE 1
  /\ \A e \in client_log :
       /\ [invocation |-> e.invocation, client |-> e.client, op |-> "open"] \in client_log
       /\ Cardinality(OpsOn(e.client, "open")) = 1
       /\ Cardinality(OpsOn(e.client, "close")) <= 1
  /\ (\A i \in DOMAIN invocations : invocations[i].pc = "done") => open_clients = {}

\* two overlapping invocations have ended, one with an exception of the store
\* while the other held its connection, one with an unknown tool name; both
\* connections were closed
C20_Witness ==
  /\ Len(invocations) = 2
  /\ \A i \in DOMAIN invocations : invocations[i].pc = "done"
  /\ invocations[1].outcome = <<"raised">>
  /\ invocations[1].client = <<2>>
  /\ invocations[2].outcome = <<"unknown_tool">>
  /\ invocations[2].client = <<1>>
  /\ Cardinality({e \in client_log : e.op = "close"}) = 2

\* C21: a call_tool invocation of 40_build_mcp.py whose name is none of the
\* three tools raises an error whose message names the tool, queries no
\* collection and hands back no result content.
C21_UnknownToolRefused ==
  (Answered /\ TheCall.impl = "40_build_mcp" /\ TheCall.tool \notin ToolNames) =>
    /\ TheCall.raised
    /\ TheCall.error = UnknownToolMessage(TheCall.tool)
    /\ ~TheCall.queried
    /\ TheCall.results = <<>>

C21_Witness ==
  /\ Answered
  /\ TheCall.impl = "40_build_mcp"
  /\ TheCall.tool = "delete_document"
  /\ TheCall.raised
  /\ docsColl # <<>>

\* a full URL: a string that begins with the scheme http:// or https://
IsFullUrl(s) ==
  \/ StartsWith(s, HttpPrefix \o <<":", "/", "/">>)
  \/ StartsWith(s, HttpPrefix \o <<"s", ":", "/", "/">>)

\* C22: the resource weaviate-doc://P with a bare path P looks up the base URL
\* https://docs.weaviate.io/ followed by P and so answers as the resource
\* vdb-doc://https://docs.weaviate.io/P does; with a full URL P it looks up P,
\* and vdb-doc://U looks up U.
C22_WeaviateDocIsVdbDocOfBase ==
  Answered =>
    /\ TheCall.tool = "vdb-doc" => TheCall.answer.lookup = TheCall.arg
    /\ (TheCall.tool = "weaviate-doc" /\ IsFullUrl(TheCall.arg)) =>
         TheCall.answer.lookup = TheCall.arg
    /\ (TheCall.tool = "weaviate-doc" /\ ~IsFullUrl(TheCall.arg)) =>
         TheCall.answer \in
           FetchDocumentResourceGeneric(docsColl, WeaviateBase \o TheCall.arg)

(***************************************************************************)
(* Properties of the index over several runs (SpecIndex).                  *)
(***************************************************************************)
\* C24: at the end of every run, also of a run after a page's body has changed,
\* the Chunks objects of a (product, path) of the directory are exactly the
\* chunks of the body the run has read, numbered 0..n-1; no chunk of an
\* earlier, longer body is left.
C24_ChunksAreThoseOfLatestBody ==
  \A k \in 1..Len(history) :
     LET h == history[k]
     IN  RanAlone(h) =>
           \A stem \in DOMAIN h.dir : \A path \in DOMAIN h.dir[stem] :
             LET cs == ChunkObjects(VdbName(stem), path, h.dir[stem][path])
             IN  ObjectsOf(h.chunks, VdbName(stem), path) = {cs[i] : i \in 1..Len(cs)}

\* C25: at the end of every run that was not aborted each Chunks object has a
\* Documents object of its product and path, and each Documents object has
\* every chunk of its body in Chunks (checked under SpecIndexFaults).
C25_CollectionsConsistent ==
  \A k \in 1..Len(history) :
     LET h == history[k]
     IN  RanAlone(h) =>
         /\ \A i \in 1..Len(h.chunks) :
              ObjectsOf(h.docs, h.chunks[i].product, h.chunks[i].path) # {}
         /\ \A j \in 1..Len(h.docs) :
              LET cs == ChunkObjects(h.docs[j].product, h.docs[j].path, h.docs[j].body)
              IN  \A n \in 1..Len(cs) : \E i \in 1..Len(h.chunks) : h.chunks[i] = cs[n]

(***************************************************************************)
(* Properties of two indexing processes at once (SpecWriters).             *)
(***************************************************************************)
\* C26: when two processes have indexed the same directory, their batches
\* reaching the store in any order, both collections hold the objects that one
\* run alone leaves, each once: none twice, none missing.
C26_TwoWritersAsOneRun ==
  (\A w \in Writers : ipc[w] = "done") =>
     /\ SameObjects(chunksColl, ChunksAfterRun(<<>>, snapDir, PagesOf(snapDir)))
     /\ SameObjects(docsColl, DocsAfterRun(<<>>, snapDir, PagesOf(snapDir)))

\* both processes are through, and the store took the batches of the first
\* file in turns: chunks of one process, chunks of the other, then documents
\* of the second before those of the first
C26_Witness ==
  /\ \A w \in Writers : ipc[w] = "done"
  /\ DOMAIN snapDir = Stems
  /\ Len(chunksColl) >= 3
  /\ Len(history) >= 4
  /\ history[1].writer = "w1" /\ history[1].collection = "Chunks"
  /\ history[2].writer = "w2" /\ history[2].collection = "Chunks"
  /\ history[3].writer = "w2" /\ history[3].collection = "Documents"
  /\ history[4].writer = "w1" /\ history[4].collection = "Documents"

(***************************************************************************)
(* Properties of the indexing run after the repair pass                    *)
(* (SpecRepairThenIndex).                                                  *)
(***************************************************************************)
\* C27: after an indexing run that follows the repair pass, the Documents
\* object of every URL has the text of the processed file as its body and the
\* Chunks objects of the URL are the chunks of that text, so a repaired URL
\* is indexed with its repaired text.
C27_RepairedTextIsIndexed ==
  ipc = "done" =>
    \A f \in DOMAIN processedDir : \A u \in DOMAIN processedDir[f] :
       LET product == VdbName(FileStem(f))
           cs == ChunkObjects(product, UrlPath(u), Words(processedDir[f][u]))
       IN  /\ \A o \in ObjectsOf(docsColl, product, UrlPath(u)) :
                o.body = processedDir[f][u]
           /\ ObjectsOf(docsColl, product, UrlPath(u)) # {}
           /\ ObjectsOf(chunksColl, product, UrlPath(u)) = {cs[i] : i \in 1..Len(cs)}

(***************************************************************************)
(* Properties of the identifiers (SpecIdentify).                           *)
(***************************************************************************)
\* two objects with one Documents identifier are of one (product, path), and
\* two with one Chunks identifier are of one (product, path, chunk_no)
SameIdentifierSameRecord(a, b) ==
  /\ a.document_uuid = b.document_uuid => (a.product = b.product /\ a.path = b.path)
  /\ a.chunk_uuid = b.chunk_uuid =>
       (a.product = b.product /\ a.path = b.path /\ a.chunk_no = b.chunk_no)

\* C28 as stated: whatever the keys of the snapshot files are, different
\* (product, path) pairs have different Documents identifiers and different
\* (product, path, chunk_no) triples have different Chunks identifiers.
C28_IdentifiersInjective ==
  ipc = "identified" => SameIdentifierSameRecord(batch[1], batch[2])

\* C28: for pages whose keys are full URLs, different (product, path) pairs
\* have different Documents identifiers and different (product, path,
\* chunk_no) triples have different Chunks identifiers.
C28_IdentifiersInjectiveOnUrls ==
  (ipc = "identified" /\ IsFullUrl(batch[1].path) /\ IsFullUrl(batch[2].path))
     => SameIdentifierSameRecord(batch[1], batch[2])

\* the identifiers of chunk 1 of page https://d/p and of chunk 0 of page
\* https://d/p-chunk-1, of the products a and a-b, have been derived and differ
C28_Witness ==
  /\ ipc = "identified"
  /\ batch[1].product = <<"a">> /\ batch[1].path = PathP /\ batch[1].chunk_no = 1
  /\ batch[2].product = <<"a", "-", "b">> /\ batch[2].path = PathPChunk
  /\ batch[2].chunk_no = 0
  /\ batch[1].chunk_uuid # batch[2].chunk_uuid
  /\ batch[1].document_uuid # batch[2].document_uuid

(***************************************************************************)
(* The frame of process_file (SpecValidate).                               *)
(***************************************************************************)
\* the mapping out has the keys of the mapping in, and the entries of in that
\* are not problematic have their text in out
OnlyProblematicChanged(in, out) ==
  /\ DOMAIN out = DOMAIN in
  /\ \A url \in DOMAIN in : ~IsProblematicContent(in[url]) => out[url] = in[url]

\* C29: all through process_file, and in what it returns, the mapping has
\* exactly the URL keys of the input file, and every entry whose text the
\* first pass found clean has that text, also when other entries of the file
\* are re-fetched and replaced.
C29_OnlyProblematicTextsChange ==
  /\ input_file # <<>> => OnlyProblematicChanged(rawDir[input_file[1]], data)
  /\ \A f \in DOMAIN processedDir : OnlyProblematicChanged(rawDir[f], processedDir[f])

\* a file with a clean entry and a problematic one has been processed: the
\* problematic entry has the re-fetched text, the clean one its own
C29_Witness ==
  /\ "f1" \in DOMAIN processedDir
  /\ \E u, v \in DOMAIN rawDir["f1"] :
       /\ rawDir["f1"][u] = CleanText
       /\ processedDir["f1"][u] = CleanText
       /\ rawDir["f1"][v] = ChallengeText
       /\ processedDir["f1"][v] = FreshText

====
